---- MODULE Spec2Model ----
(***************************************************************************)
(* A model of the make_scaler pipeline of message_ix:                      *)
(*   - LPdiagFast.read_mps, the streaming MPS parser                       *)
(*     (src/message_ix/tools/lp_diag/lp_diag_fast.py);                     *)
(*   - the scaling engine, the statement emitter and the execution         *)
(*     strategy selector (src/message_ix/tools/make_scaler/*.py).          *)
(* Every part has its own specification over the same variables:           *)
(*   SpecParse  the parser, fed one line at a time;                        *)
(*   SpecPre    the parallel preprocessing of the problem file;            *)
(*   SpecScale  the scaling iterations and the statement set;              *)
(*   SpecRun    whole runs of make_scaler;                                 *)
(*   SpecQuote  the emitter's quoting rule on one parameter;               *)
(*   Spec       all of them.                                               *)
(***************************************************************************)
EXTENDS Integers, Sequences, FiniteSets, TLC

VARIABLES
    \* ---- LPdiagFast: the object's fields, and the locals of read_mps
    lp,          \* the LPdiagFast object (record of its fields)
    n_section,   \* read_mps: index of the section being read
    next_sect,   \* read_mps: lowest header index still acceptable
    n_line,      \* read_mps: number of the line read last
    p_pc,        \* "idle", "reading", "ok" (read_mps returned), "error"
    p_err,       \* [kind, line]: the exception raised, line = 0 if it has none
    \* ---- history of the file read so far (what the claims quantify over)
    hdrSeen,     \* section keywords that appeared as a header line
    lowHdr,      \* line of the first header with index < n_section, else 0
    colsFirst,   \* a ROWS header appeared after a COLUMNS header, none before
    badRef,      \* line of the first COLUMNS line naming an undeclared row
    lastTerm,    \* FALSE iff the file's last line had no newline
    \* ---- make_scaler: the arguments of the call
    mode,        \* the mode argument
    bounds,      \* the bounds argument: [kind, b, lo, up]
    steps,       \* the steps argument
    big,         \* the problem file is larger than 100 MB
    use_fast_lp, \* the use_fast_lp keyword: "None", "True" or "False"
    n_workers,   \* the worker count, resolved
    \* ---- make_scaler: the run
    pc,          \* "idle", "call", "pre", "workers", "read", "scale", "write",
                 \* "report", "returned", "raised"
    impl,        \* the implementation chosen: "standard" or "parallel"
    fast,        \* make_scaler_parallel: LPdiagFast is used
    err,         \* the exception raised ("none" if none)
    file,        \* the problem file: a sequence of lines (character sequences)
    chunks,      \* _parallel_file_preprocessing: the chunks
    results,     \* the futures: [done, lines] per chunk
    processed_chunks,  \* [set, lines] per chunk, written by index
    pt_set,      \* the local preprocessing_time is assigned
    matrix,      \* the coefficient matrix
    scalers,     \* the cumulative factor tables, [] until the first step
    counter,     \* the iteration counter
    axis,        \* the axis of the next step: "row" or "col"
    scaler_dict, \* the statement set, a sequence of [key, exp]
    outFile,     \* the scale-statement file: [exists, text]
    ret,         \* the table returned to the caller: [set, table]
    \* ---- history
    file0,       \* the problem file when make_scaler was called
    matrix0,     \* the matrix the problem file holds
    outFile0,    \* the scale-statement file when make_scaler was called
    io,          \* the file operations performed so far
    touched,     \* <<axis, value>> pairs that got a non-unit step factor
    last,        \* the last scaling step: [set, matrix (before it), axis, step]
    cum,         \* per axis, the product of the step factors so far (exponents)
    \* ---- the emitter's quoting rule, applied to one parameter
    q_param,     \* the parameter, as split from the identifier
    q_emitted,   \* the rule applied to q_param
    q_again,     \* the rule applied to q_emitted
    q_pc,        \* "idle", "param", "once", "twice"
    \* ---- the space placeholder: forward transform, then inverse transform
    t_text,      \* the string handed to the forward transform
    t_replaced,  \* the forward transform of t_text
    t_restored,  \* the inverse transform of t_replaced
    t_pc,        \* "idle", "text", "replaced", "restored"
    \* ---- the magnitude transform applied to one table of values
    g_data,      \* the "val" column of the table handed to the transform
    g_data0,     \* the column when the transform was called
    g_log,       \* the "val" column of the table returned
    g_pc,        \* "idle", "data", "done"
    \* ---- the outlier filter applied to one table of magnitudes
    f_data,      \* the "val" column of the table handed to the filter
    f_b,         \* the integer bound
    f_int,       \* the rows selected with the bound f_b: [ix, val] each
    f_pair,      \* the rows selected with the pair [-f_b, f_b]
    f_pc,        \* "idle", "data", "int", "both"
    \* ---- the lookup of the prescaler of a model/scenario pair
    k_model,     \* the model argument
    k_scenario,  \* the scenario argument
    k_files,     \* the names of the files of the scaler directory
    k_files0,    \* the directory when the lookup was called
    k_ret,       \* the result: [set, none, arg]
    k_out,       \* the messages printed
    k_raised,    \* the lookup ended with an exception
    k_pc,        \* "idle", "call", "done"
    \* ---- _parallel_scaling_operations: one iteration, two pool tasks
    o_matrix,    \* the matrix argument, which both tasks are given
    o_bounds,    \* the bounds argument
    o_workers,   \* max_workers of the pool
    o_scalers,   \* the scalers argument, the dict the tasks share
    o_task,      \* per axis: [pc ("queued", "computed", "done"), step, result]
    o_ret,       \* the matrix returned: [set, matrix]
    o_pc,        \* "idle", "pool", "returned"
    \* ---- the statement key of one identifier with a parameter list
    y_name,      \* the base name of the identifier
    y_params,    \* its parameters, as written between the parentheses
    y_key,       \* the statement key built for it
    y_pc,        \* "idle", "ident", "done"
    \* ---- read_mps: the chunked read of the file into lines
    c_file,      \* the bytes of the file
    c_size,      \* chunk_size
    c_pos,       \* bytes read so far
    c_buffer,    \* the carry-over buffer: the partial last line
    c_lines,     \* the lines handed to the line loop so far, in order
    c_pc,        \* "idle", "read", "done"
    \* ---- the pre-allocated matrix arrays of LPdiagFast
    b_capacity,  \* _capacity
    b_size,      \* _size
    b_arr,       \* (mat_row, mat_col, mat_val): index -> <<row, col, val>>
    b_hist,      \* history: the entries appended, in order
    b_pc         \* "idle", "append", "trimmed", "error"

parseVars == <<lp, n_section, next_sect, n_line, p_pc, p_err,
               hdrSeen, lowHdr, colsFirst, badRef, lastTerm>>

runVars == <<mode, bounds, steps, big, use_fast_lp, n_workers, pc, impl, fast, err,
             file, chunks, results, processed_chunks, pt_set, matrix, scalers,
             counter, axis, scaler_dict, outFile, ret,
             file0, matrix0, outFile0, io, touched, last, cum>>

quoteVars == <<q_param, q_emitted, q_again, q_pc>>

tripVars == <<t_text, t_replaced, t_restored, t_pc>>

\* the parts that stand apart from the parser, the run and the quoting rule
logVars == <<g_data, g_data0, g_log, g_pc>>

filterVars == <<f_data, f_b, f_int, f_pair, f_pc>>

lookupVars == <<k_model, k_scenario, k_files, k_files0, k_ret, k_out, k_raised, k_pc>>

poolVars == <<o_matrix, o_bounds, o_workers, o_scalers, o_task, o_ret, o_pc>>

keyVars == <<y_name, y_params, y_key, y_pc>>

chunkVars == <<c_file, c_size, c_pos, c_buffer, c_lines, c_pc>>

bufVars == <<b_capacity, b_size, b_arr, b_hist, b_pc>>

restVars == <<tripVars, logVars, filterVars, lookupVars,
             poolVars, keyVars, chunkVars, bufVars>>

vars == <<parseVars, runVars, quoteVars, restVars>>

\* what the actions of one part leave alone
outsideParse == <<runVars, quoteVars, restVars>>

outsideRun == <<parseVars, quoteVars, restVars>>

outsideQuote == <<parseVars, runVars, restVars>>

outsideKey == <<parseVars, runVars, quoteVars,
                  tripVars, logVars, filterVars, lookupVars, poolVars, chunkVars,
                  bufVars>>

outsideChunk == <<parseVars, runVars, quoteVars,
                  tripVars, logVars, filterVars, lookupVars, poolVars, keyVars,
                  bufVars>>

outsideBuf == <<parseVars, runVars, quoteVars,
                  tripVars, logVars, filterVars, lookupVars, poolVars, keyVars, chunkVars>>

outsideTrip == <<parseVars, runVars, quoteVars, logVars, filterVars, lookupVars,
                  poolVars, keyVars, chunkVars, bufVars>>

outsideLog == <<parseVars, runVars, quoteVars, tripVars, filterVars, lookupVars,
                  poolVars, keyVars, chunkVars, bufVars>>

outsideFilter == <<parseVars, runVars, quoteVars, tripVars, logVars, lookupVars,
                  poolVars, keyVars, chunkVars, bufVars>>

outsidePool == <<parseVars, runVars, quoteVars, tripVars, logVars, filterVars, lookupVars,
                  keyVars, chunkVars, bufVars>>

outsideLookup == <<parseVars, runVars, quoteVars, tripVars, logVars, filterVars,
                  poolVars, keyVars, chunkVars, bufVars>>

(***************************************************************************)
(* Bounds of the model.                                                    *)
(***************************************************************************)
MaxLines == 6        \* newline-terminated lines fed to the parser

MaxSteps == 2        \* largest iteration count (steps) of a run

MaxWorkers == 3      \* largest worker count of the preprocessing pool

MaxFileLines == 3    \* longest problem file handed to the preprocessing

MaxParamLen == 3     \* longest parameter handed to the quoting rule

MaxTextLen == 4      \* longest string handed to the placeholder transforms

MaxTable == 3        \* longest table handed to the magnitude transform

MaxParams == 2       \* most parameters of an identifier handed to the key rule

MaxChars == 4        \* longest file, in characters, handed to the chunked read

MaxChunk == 3        \* largest chunk_size of the chunked read

MaxCapacity == 2     \* largest initial_capacity of the matrix arrays

MaxAppends == 4      \* most matrix entries appended to the arrays

(***************************************************************************)
(* MPS lines.  A line is a record: kind "empty" (""), "comment" (starts    *)
(* with '*') or "text"; lead = the line starts with a blank; words = the   *)
(* result of the whitespace split of the stripped line.                    *)
(***************************************************************************)
sections == <<"NAME", "ROWS", "COLUMNS", "RHS", "RANGES", "BOUNDS", "SOS", "ENDATA">>

section_set == {sections[i] : i \in 1..Len(sections)}

\* sections.index(w), 0-based
SectionIndex(w) == (CHOOSE i \in 1..Len(sections) : sections[i] = w) - 1

required_sections == {0, 1, 2, 7}

Header(w) == [kind |-> "text", lead |-> FALSE, words |-> <<w>>]

Content(ws) == [kind |-> "text", lead |-> TRUE, words |-> ws]

HeaderLines == {Header(w) : w \in section_set}

RowLines == {Content(<<"N", "obj">>), Content(<<"L", "r1">>), Content(<<"N", "r1">>)}

ColumnLines ==
    { Content(<<"x", "obj", "1">>),
      Content(<<"x", "r1", "2">>),
      Content(<<"y", "obj", "1", "r1", "2">>),
      Content(<<"x", "obj", "1", "r1">>),
      Content(<<"x", "r1">>),
      Content(<<"x", "obj", "bad">>) }

OtherLines == { [kind |-> "empty", lead |-> FALSE, words |-> <<>>],
                [kind |-> "comment", lead |-> FALSE, words |-> <<"*">>] }

LineVocab == HeaderLines \cup RowLines \cup ColumnLines \cup OtherLines

\* float(token): the tokens that parse as numbers, and their values
NumberTokens == {"1", "2"}

FloatOf(tok) == IF tok = "1" THEN 1 ELSE 2

NoErr == [kind |-> "none", line |-> 0]

Raise(k, n) == [kind |-> k, line |-> n]

EmptyMap == [x \in {} |-> 0]

(***************************************************************************)
(* LPdiagFast.__init__                                                     *)
(***************************************************************************)
NewLP ==
    [ n_lines   |-> 0,
      prob_name |-> "",
      row_name  |-> EmptyMap,    \* name -> seq
      col_name  |-> EmptyMap,    \* name -> seq
      seq_row   |-> EmptyMap,    \* seq -> [name, type]
      seq_col   |-> EmptyMap,    \* seq -> [name]
      n_rows    |-> 0,
      n_cols    |-> 0,
      gf_seq    |-> -1,
      mat       |-> <<>> ]       \* (mat_row, mat_col, mat_val)[0 .. _size-1]

\* _add_matrix_element
AddMatrixElement(o, row_seq, col_seq, val) ==
    [o EXCEPT !.mat = Append(@, <<row_seq, col_seq, val>>)]

\* _process_rows without the "gf_seq == -1" test: the last N row is tracked
ProcessRowsLastN(o, words) ==
    IF Len(words) < 2 THEN o
    ELSE LET row_type == words[1]
             row_name == words[2]
             row_seq  == o.n_rows
         IN [o EXCEPT
               !.row_name = (row_name :> row_seq) @@ @,
               !.seq_row  = (row_seq :> [name |-> row_name, type |-> row_type]) @@ @,
               !.n_rows   = @ + 1,
               !.gf_seq   = IF row_type = "N" THEN row_seq ELSE @]

\* _process_rows: the object after the line
ProcessRows(o, words) ==
    IF Len(words) < 2 THEN o
    ELSE LET row_type == words[1]
             row_name == words[2]
             row_seq  == o.n_rows
         IN [o EXCEPT
               !.row_name = (row_name :> row_seq) @@ @,
               !.seq_row  = (row_seq :> [name |-> row_name, type |-> row_type]) @@ @,
               !.n_rows   = @ + 1,
               !.gf_seq   = IF row_type = "N" /\ @ = -1 THEN row_seq ELSE @]

\* _process_columns: [o |-> the object after the line, err |-> the exception]
ProcessColumns(o, words, n) ==
    IF Len(words) < 3 THEN [o |-> o, err |-> NoErr]
    ELSE
      LET col     == words[1]
          known   == col \in DOMAIN o.col_name
          col_seq == IF known THEN o.col_name[col] ELSE o.n_cols
          o1 == IF known THEN o
                ELSE [o EXCEPT !.col_name = (col :> col_seq) @@ @,
                               !.seq_col  = (col_seq :> [name |-> col]) @@ @,
                               !.n_cols   = @ + 1]
      IN IF words[2] \notin DOMAIN o1.row_name
           THEN [o |-> o1, err |-> Raise("unknown_row", n)]
         ELSE IF words[3] \notin NumberTokens
           THEN [o |-> o1, err |-> Raise("invalid_number", n)]
         ELSE
           LET o2 == AddMatrixElement(o1, o1.row_name[words[2]], col_seq, FloatOf(words[3]))
           IN IF Len(words) < 5 THEN [o |-> o2, err |-> NoErr]
              ELSE IF words[4] \notin DOMAIN o2.row_name
                THEN [o |-> o2, err |-> Raise("unknown_row", n)]
              ELSE IF words[5] \notin NumberTokens
                THEN [o |-> o2, err |-> Raise("invalid_number", n)]
              ELSE [o |-> AddMatrixElement(o2, o2.row_name[words[4]], col_seq,
                                           FloatOf(words[5])),
                    err |-> NoErr]

\* self._section_handlers[n_section](words, n_line)
SectionHandler(sec, o, words, n) ==
    IF sec = 1 THEN [o |-> ProcessRows(o, words), err |-> NoErr]
    ELSE IF sec = 2 THEN ProcessColumns(o, words, n)
    ELSE [o |-> o, err |-> NoErr]

\* "line[0] != ' ' and words[0] in section_set"
IsHeader(line) ==
    /\ line.kind = "text"
    /\ ~line.lead
    /\ Len(line.words) > 0
    /\ line.words[1] \in section_set

\* "not line or line[0] == '*'"
IsSkipped(line) == line.kind \in {"empty", "comment"}

\* mps_sum, after the ENDATA assertion: the exception raised, if any
MpsSum(o, sec) ==
    IF sec # 7 THEN Raise("assert_endata", 0)
    ELSE IF o.gf_seq = -1 THEN Raise("assert_objective", 0)
    ELSE IF o.n_rows * o.n_cols = 0 THEN Raise("zero_division", 0)
    ELSE NoErr

(***************************************************************************)
(* History of the file, kept beside the parser.                            *)
(***************************************************************************)
\* a row-name position (2nd or 4th token) of a COLUMNS content line names a
\* row that is not declared
NamesUndeclaredRow(o, line) ==
    /\ line.kind = "text"
    /\ \E i \in {2, 4} : i <= Len(line.words) /\ line.words[i] \notin DOMAIN o.row_name

HeaderKeyword(line) ==
    line.kind = "text" /\ ~line.lead /\ Len(line.words) > 0 /\ line.words[1] \in section_set

History(line, n, asHeader) ==
    /\ hdrSeen' = IF HeaderKeyword(line) THEN hdrSeen \cup {line.words[1]} ELSE hdrSeen
    /\ lowHdr' = IF lowHdr = 0 /\ HeaderKeyword(line)
                    /\ SectionIndex(line.words[1]) < n_section
                 THEN n ELSE lowHdr
    /\ colsFirst' = (colsFirst \/ ( /\ HeaderKeyword(line)
                                    /\ line.words[1] = "ROWS"
                                    /\ "COLUMNS" \in hdrSeen
                                    /\ "ROWS" \notin hdrSeen ))
    /\ badRef' = IF badRef = 0 /\ ~asHeader /\ ~IsSkipped(line)
                    /\ n_section = 2 /\ NamesUndeclaredRow(lp, line)
                 THEN n ELSE badRef


(***************************************************************************)
(* The scaling engine (scaler_optim.py, parallel.py).                      *)
(*                                                                         *)
(* A coefficient is a record [z, h]: z = the value is 0; otherwise its     *)
(* absolute value is 10^(h/2), so that its magnitude log10|v| is h/2: the  *)
(* model keeps magnitudes in half units, which makes the integer casts of  *)
(* the code observable.  A scale factor 10^e is kept as its exponent e; a  *)
(* factor equals 1.0 iff e = 0.  The matrix is a function from its index   *)
(* (a set of <<row, col>> pairs) to coefficients; an axis value (a row or  *)
(* column name) is a sequence of characters.                               *)
(***************************************************************************)
OBJ == <<"_", "o", "b", "j">>

CONSTOBJ == <<"c", "o", "n", "s", "t", "o", "b", "j">>

\* the level values of axis s ("row" or "col") of an index
Level(cell, s) == IF s = "row" THEN cell[1] ELSE cell[2]

\* get_lvl_ix, as a set
get_lvl_ix(cells, s) == {Level(c, s) : c \in cells}

\* optimized_make_logdf: the magnitude (in half units) of each entry; 0 for 0
optimized_make_logdf(m) == [c \in DOMAIN m |-> IF m[c].z THEN 0 ELSE m[c].h]

\* np.abs
Abs(v) == IF v < 0 THEN -v ELSE v

\* np.log10(0) is -inf (with a warning, without an exception)
NegInf == -999

RECURSIVE Log10(_)
\* np.log10 of a positive power of ten
Log10(n) == IF n < 10 THEN 0 ELSE 1 + Log10(n \div 10)

\* np.log10(np.abs(v))
Log10Abs(v) == IF v = 0 THEN NegInf ELSE Log10(Abs(v))

\* the transform without the mask of the nonzero entries
LogArrNoMask(arr) == [i \in 1..Len(arr) |-> Log10Abs(arr[i])]

\* optimized_make_logdf on the values themselves: log_arr is zero where the
\* mask "arr != 0" is false and log10(abs(arr)) where it is true
LogArr(arr) == [i \in 1..Len(arr) |-> IF arr[i] # 0 THEN Log10Abs(arr[i]) ELSE 0]

\* "lo_bound, up_bound = bounds": the bounds argument can be unpacked
BoundsOk(b) == b.kind \in {"int", "pair"}

\* the lower limit of an integer bound taken without the change of sign
lo_boundSame(b) == IF b.kind = "int" THEN b.b ELSE b.lo

lo_bound(b) == IF b.kind = "int" THEN -b.b ELSE b.lo

up_bound(b) == IF b.kind = "int" THEN b.b ELSE b.up

\* optimized_filter_df: the index of the outliers of a magnitude table
optimized_filter_df(logm, b) ==
    {c \in DOMAIN logm : logm[c] <= 2 * lo_bound(b) \/ logm[c] >= 2 * up_bound(b)}

\* optimized_filter_df on a column of magnitudes in whole units: data.loc[mask]
\* keeps the selected rows, label and value, in their order
FilterDf(data, b) ==
    LET rows == [i \in 1..Len(data) |-> [ix |-> i, val |-> data[i]]]
        mask(r) == r.val <= lo_bound(b) \/ r.val >= up_bound(b)
    IN SelectSeq(rows, mask)

\* astype(int) of the real number x/2: truncation toward zero
TruncHalf(x) == IF x >= 0 THEN x \div 2 ELSE -((-x) \div 2)

SetMin(S) == CHOOSE x \in S : \A y \in S : x <= y

SetMax(S) == CHOOSE x \in S : \A y \in S : x >= y

\* grp.agg(["min", "max"]).astype(int), then ((min + max) / 2).astype(int),
\* over all entries of axis value a
Mid(logm, s, a) ==
    LET mags == {logm[c] : c \in {d \in DOMAIN logm : Level(d, s) = a}}
        lo   == TruncHalf(SetMin(mags))
        hi   == TruncHalf(SetMax(mags))
    IN TruncHalf(lo + hi)

\* no axis value is set apart as the objective
objective_ixNone(s) == <<>>

objective_ix(s) == IF s = "row" THEN OBJ ELSE CONSTOBJ

\* levels_solv: the axis values with an outlier entry, the sentinel excluded
levels_solv(logm, s, b) ==
    get_lvl_ix(optimized_filter_df(logm, b), s) \ {objective_ix(s)}

\* SFs, reindexed to return_index and filled with 1: the exponent of the
\* factor of this step for every axis value of the matrix
StepExps(m, s, b) ==
    LET logm == optimized_make_logdf(m)
        solv == levels_solv(logm, s, b)
    IN [a \in get_lvl_ix(DOMAIN m, s) |->
          IF a \in solv
          THEN (IF s = "row" THEN Mid(logm, s, a) ELSE -Mid(logm, s, a))
          ELSE 0]

\* scalers[s].reindex(return_index).fillna(1); 1 at counter 0
Multiplier(sc, s, idx, cnt) ==
    [a \in idx |-> IF cnt = 0 \/ a \notin DOMAIN sc[s] THEN 0 ELSE sc[s][a]]

\* matrix.div(step_scaler) for rows, matrix.mul(step_scaler) for columns
ApplyFactor(m, s, f) ==
    [c \in DOMAIN m |->
       IF m[c].z THEN m[c]
       ELSE [z |-> FALSE,
             h |-> IF s = "row" THEN m[c].h - 2 * f[c[1]] ELSE m[c].h + 2 * f[c[2]]]]

\* scaler_optim.make_scaler, lines 81-109: one axis step of the standard path
StepStandard(m, sc, s, b, cnt) ==
    LET step == StepExps(m, s, b)
        mult == Multiplier(sc, s, DOMAIN step, cnt)
    IN [matrix  |-> ApplyFactor(m, s, step),
        scalers |-> [sc EXCEPT ![s] = [a \in DOMAIN step |-> step[a] + mult[a]]],
        step    |-> step]

\* _process_scaling_step_parallel: one axis step of the parallel path.  After
\* iteration 0 step_scaler is multiplied by the cumulative table before it is
\* stored and before it is applied to the matrix.
StepParallel(m, sc, s, b, cnt) ==
    LET step == StepExps(m, s, b)
        mult == Multiplier(sc, s, DOMAIN step, cnt)
        step_scaler == [a \in DOMAIN step |-> step[a] + mult[a]]
    IN [matrix  |-> ApplyFactor(m, s, step_scaler),
        scalers |-> [sc EXCEPT ![s] = step_scaler],
        step    |-> step]

\* scalers = {"row": [], "col": []}
NoScalers == [row |-> <<>>, col |-> <<>>]

\* the loop "while counter < steps: for s in scalers.keys(): ..." of the
\* standard path, run to its end: the final cumulative tables
RECURSIVE RunStandard(_, _, _, _, _, _)
RunStandard(m, sc, s, b, cnt, n) ==
    IF cnt >= n THEN sc
    ELSE LET r == StepStandard(m, sc, s, b, cnt)
         IN IF s = "row" THEN RunStandard(r.matrix, r.scalers, "col", b, cnt, n)
            ELSE RunStandard(r.matrix, r.scalers, "row", b, cnt + 1, n)


(***************************************************************************)
(* The quote normalizer and the statement emitter.  Text is a sequence of  *)
(* one-character strings.                                                  *)
(***************************************************************************)
QUOTE == "'"

\* position of the first occurrence of character ch in s, 0 if there is none
IndexOf(s, ch) ==
    IF \E i \in 1..Len(s) : s[i] = ch
    THEN CHOOSE i \in 1..Len(s) : s[i] = ch /\ \A j \in 1..(i - 1) : s[j] # ch
    ELSE 0

RECURSIVE ReplaceSpaces(_)
\* inner_text.replace(' ', '___')
ReplaceSpaces(s) ==
    IF s = <<>> THEN <<>>
    ELSE (IF Head(s) = " " THEN <<"_", "_", "_">> ELSE <<Head(s)>>) \o ReplaceSpaces(Tail(s))

RECURSIVE QuoteSub(_)
\* quoted_pattern.sub(replace_spaces_in_quotes, line), pattern '([^']*)'
QuoteSub(s) ==
    LET i == IndexOf(s, QUOTE) IN
    IF i = 0 THEN s
    ELSE LET rest == SubSeq(s, i + 1, Len(s))
             j    == IndexOf(rest, QUOTE)
         IN IF j = 0 THEN s
            ELSE SubSeq(s, 1, i) \o ReplaceSpaces(SubSeq(rest, 1, j - 1)) \o <<QUOTE>>
                 \o QuoteSub(SubSeq(rest, j + 1, Len(rest)))

RECURSIVE ReturnSpaces(_)
\* inner_text.replace('---', ' '): left to right, without overlap
ReturnSpaces(s) ==
    IF Len(s) >= 3 /\ SubSeq(s, 1, 3) = <<"-", "-", "-">>
      THEN <<" ">> \o ReturnSpaces(SubSeq(s, 4, Len(s)))
    ELSE IF s = <<>> THEN <<>>
    ELSE <<Head(s)>> \o ReturnSpaces(Tail(s))

RECURSIVE ReturnSub(_)
\* pattern.sub(return_spaces_in_quotes, text), pattern '([^']*)'
ReturnSub(s) ==
    LET i == IndexOf(s, QUOTE) IN
    IF i = 0 THEN s
    ELSE LET rest == SubSeq(s, i + 1, Len(s))
             j    == IndexOf(rest, QUOTE)
         IN IF j = 0 THEN s
            ELSE SubSeq(s, 1, i) \o ReturnSpaces(SubSeq(rest, 1, j - 1)) \o <<QUOTE>>
                 \o ReturnSub(SubSeq(rest, j + 1, Len(rest)))

\* _process_file_chunk_regex: the forward transform of every line of a chunk
ProcessChunk(lines) == [i \in 1..Len(lines) |-> QuoteSub(lines[i])]

RECURSIVE Strip(_)
\* p.strip()
Strip(s) ==
    IF s = <<>> THEN s
    ELSE IF Head(s) = " " THEN Strip(Tail(s))
    ELSE IF s[Len(s)] = " " THEN Strip(SubSeq(s, 1, Len(s) - 1))
    ELSE s

\* p.startswith("'") and p.endswith("'")
IsQuoted(p) == Len(p) > 0 /\ p[1] = QUOTE /\ p[Len(p)] = QUOTE

\* a rule that quotes without looking for existing quotes
QuoteParamAlways(p) == <<QUOTE>> \o Strip(p) \o <<QUOTE>>

\* the body of "for p in params": the emitted form of one parameter
QuoteParam(p) ==
    LET q == Strip(p) IN IF IsQuoted(q) THEN q ELSE <<QUOTE>> \o q \o <<QUOTE>>

RECURSIVE Split(_)
\* s.split(","): a sequence of texts
Split(s) ==
    LET i == IndexOf(s, ",") IN
    IF i = 0 THEN <<s>>
    ELSE <<SubSeq(s, 1, i - 1)>> \o Split(SubSeq(s, i + 1, Len(s)))

RECURSIVE Join(_)
\* ",".join(parts)
Join(parts) ==
    IF Len(parts) = 0 THEN <<>>
    ELSE IF Len(parts) = 1 THEN parts[1]
    ELSE parts[1] \o <<",">> \o Join(Tail(parts))

DotScale == <<".", "s", "c", "a", "l", "e">>

ControlKey == <<"M", "E", "S", "S", "A", "G", "E", "_", "L", "P", ".", "s", "c", "a", "l", "e", "o", "p", "t">>

\* a key built by appending the suffix to the whole identifier
MakeKeyAppend(k) == k \o DotScale

\* the statement key k_ of axis value k
MakeKey(k) ==
    IF k = OBJ THEN OBJ \o DotScale
    ELSE IF k = CONSTOBJ THEN CONSTOBJ \o DotScale
    ELSE IF IndexOf(k, "(") # 0 /\ IndexOf(k, ")") # 0
      THEN LET constraint_name == SubSeq(k, 1, IndexOf(k, "(") - 1)
               params == Split(SubSeq(k, IndexOf(k, "(") + 1, IndexOf(k, ")") - 1))
               quoted_params == [i \in 1..Len(params) |-> QuoteParam(params[i])]
           IN constraint_name \o DotScale \o <<"(">> \o Join(quoted_params) \o <<")">>
    ELSE k \o DotScale

\* scaler_dict[k_] = v: a dict keeps the position of a key it already holds
DictPut(d, k, v) ==
    IF \E i \in 1..Len(d) : d[i].key = k
    THEN [i \in 1..Len(d) |-> IF d[i].key = k THEN [key |-> k, exp |-> v] ELSE d[i]]
    ELSE Append(d, [key |-> k, exp |-> v])

\* a filter that drops nothing
NonUnitKeepAll(tbl) == DOMAIN tbl

\* df_scaler.loc[df_scaler["val"] != 1]: the axis values that are emitted
NonUnit(tbl) == {a \in DOMAIN tbl : tbl[a] # 0}

RECURSIVE PutAll(_, _, _)
\* "for k, v in df_scaler['val'].to_dict().items(): ... scaler_dict[k_] = v",
\* ks = the rows of the filtered table in their order
PutAll(d, ks, tbl) ==
    IF ks = <<>> THEN d
    ELSE PutAll(DictPut(d, MakeKey(Head(ks)), tbl[Head(ks)]), Tail(ks), tbl)

\* the orders in which a table can list the axis values S (return_index is
\* list(set(...)): the order is not fixed by the code)
Orders(S) ==
    {f \in [1..Cardinality(S) -> S] : \A i, j \in 1..Cardinality(S) : f[i] = f[j] => i = j}

\* the whole statement set: rows, then columns, then the control statement
\* (a factor 10^0 = 1 stands for its value 1)
BuildDict(sc, rowOrder, colOrder) ==
    DictPut(PutAll(PutAll(<<>>, rowOrder, sc.row), colOrder, sc.col), ControlKey, 0)


(***************************************************************************)
(* make_scaler: the run.                                                   *)
(***************************************************************************)
HAS_FAST_LP == TRUE

Stmt(k, e) == [key |-> k, exp |-> e]

NoFile == [exists |-> FALSE, text |-> <<>>]

NoBounds == [kind |-> "int", b |-> 0, lo |-> 0, up |-> 0]

IntBounds(n) == [kind |-> "int", b |-> n, lo |-> 0, up |-> 0]

PairBounds(l, u) == [kind |-> "pair", b |-> 0, lo |-> l, up |-> u]

\* neither an integer nor a pair: "lo_bound, up_bound = bounds" raises
BadBounds == [kind |-> "bad", b |-> 0, lo |-> 0, up |-> 0]

Coef(h) == [z |-> FALSE, h |-> h]

Zero == [z |-> TRUE, h |-> 0]

\* no scaling step was made
NoStep == [set |-> FALSE, matrix |-> <<>>, axis |-> "row", step |-> <<>>]

\* the exponent a table of factors holds for axis value a, 0 (factor 1) if none
CumOf(tbl, a) == IF a \in DOMAIN tbl THEN tbl[a] ELSE 0

\* the state of the run variables that a specification does not draw
RunDefaults ==
    /\ fast = FALSE
    /\ err = "none"
    /\ chunks = <<>>
    /\ results = <<>>
    /\ processed_chunks = <<>>
    /\ pt_set = FALSE
    /\ scalers = NoScalers
    /\ counter = 0
    /\ axis = "row"
    /\ scaler_dict = <<>>
    /\ ret = [set |-> FALSE, table |-> <<>>]
    /\ io = {}
    /\ touched = {}
    /\ last = NoStep
    /\ cum = NoScalers

\* no run of make_scaler
RunIdle ==
    /\ RunDefaults
    /\ big = FALSE
    /\ use_fast_lp = "None"
    /\ n_workers = 1
    /\ mode = "standard"
    /\ bounds = NoBounds
    /\ steps = 0
    /\ pc = "idle"
    /\ impl = "standard"
    /\ file = <<>>
    /\ file0 = <<>>
    /\ matrix = <<>>
    /\ matrix0 = <<>>
    /\ outFile = NoFile
    /\ outFile0 = NoFile

\* no parameter is being quoted
QuoteIdle ==
    /\ q_param = <<>>
    /\ q_emitted = <<>>
    /\ q_again = <<>>
    /\ q_pc = "idle"

\* no parse by LPdiagFast
TripIdle ==
    /\ t_text = <<>>
    /\ t_replaced = <<>>
    /\ t_restored = <<>>
    /\ t_pc = "idle"

LogIdle ==
    /\ g_data = <<>>
    /\ g_data0 = <<>>
    /\ g_log = <<>>
    /\ g_pc = "idle"

FilterIdle ==
    /\ f_data = <<>>
    /\ f_b = 0
    /\ f_int = <<>>
    /\ f_pair = <<>>
    /\ f_pc = "idle"

NoResult == [set |-> FALSE, none |-> FALSE, arg |-> <<>>]

LookupIdle ==
    /\ k_model = <<>>
    /\ k_scenario = <<>>
    /\ k_files = {}
    /\ k_files0 = {}
    /\ k_ret = NoResult
    /\ k_out = <<>>
    /\ k_raised = FALSE
    /\ k_pc = "idle"

NoTask == [pc |-> "queued", step |-> <<>>, result |-> <<>>]

PoolIdle ==
    /\ o_matrix = <<>>
    /\ o_bounds = NoBounds
    /\ o_workers = 1
    /\ o_scalers = NoScalers
    /\ o_task = [s \in {"row", "col"} |-> NoTask]
    /\ o_ret = [set |-> FALSE, matrix |-> <<>>]
    /\ o_pc = "idle"

KeyIdle ==
    /\ y_name = <<>>
    /\ y_params = <<>>
    /\ y_key = <<>>
    /\ y_pc = "idle"

ChunkIdle ==
    /\ c_file = <<>>
    /\ c_size = 0
    /\ c_pos = 0
    /\ c_buffer = <<>>
    /\ c_lines = <<>>
    /\ c_pc = "idle"

BufIdle ==
    /\ b_capacity = 0
    /\ b_size = 0
    /\ b_arr = <<>>
    /\ b_hist = <<>>
    /\ b_pc = "idle"

RestIdle ==
    /\ TripIdle
    /\ LogIdle
    /\ FilterIdle
    /\ LookupIdle
    /\ PoolIdle
    /\ KeyIdle
    /\ ChunkIdle
    /\ BufIdle

ParseIdle ==
    /\ lp = NewLP
    /\ n_section = 0
    /\ next_sect = 0
    /\ n_line = 0
    /\ p_pc = "idle"
    /\ p_err = NoErr
    /\ hdrSeen = {}
    /\ lowHdr = 0
    /\ colsFirst = FALSE
    /\ badRef = 0
    /\ lastTerm = TRUE

RaiseRun(e) == pc' = "raised" /\ err' = e

(***************************************************************************)
(* make_scaler (scaler.py:198-237) and the head of make_scaler_parallel    *)
(* (parallel.py:218-233): the choice of the implementation and the parser. *)
(***************************************************************************)
Dispatch ==
    /\ pc = "call"
    /\ UNCHANGED outsideRun
    /\ UNCHANGED <<mode, bounds, steps, big, use_fast_lp, n_workers, file, chunks, results,
                   processed_chunks, pt_set, matrix, scalers, counter, axis, scaler_dict,
                   outFile, ret, file0, matrix0, outFile0, touched,
                   last, cum>>
    /\ IF mode \notin {"standard", "parallel", "auto"}
         THEN /\ RaiseRun("invalid_mode")
              /\ UNCHANGED <<impl, fast, io>>
         ELSE LET parallel == mode = "parallel" \/ (mode = "auto" /\ big)
                  use == IF use_fast_lp = "None" THEN HAS_FAST_LP /\ big
                         ELSE use_fast_lp = "True"
              IN /\ impl' = IF parallel THEN "parallel" ELSE "standard"
                 /\ fast' = (parallel /\ use /\ HAS_FAST_LP)
                 /\ io' = IF mode = "auto" \/ (parallel /\ use_fast_lp = "None")
                          THEN io \cup {"getsize"} ELSE io
                 /\ pc' = IF fast' THEN "read" ELSE "pre"
                 /\ err' = err

(***************************************************************************)
(* _make_scaler_standard, scaler.py:54-64: the file is read whole,         *)
(* truncated and rewritten with the forward transform of every line.       *)
(***************************************************************************)
PreprocessStandard ==
    /\ pc = "pre"
    /\ impl = "standard"
    /\ file' = ProcessChunk(file)
    /\ io' = io \cup {"read_input", "write_input"}
    /\ pc' = "read"
    /\ UNCHANGED outsideRun
    /\ UNCHANGED <<mode, bounds, steps, big, use_fast_lp, n_workers, impl, fast, err, chunks,
                   results, processed_chunks, pt_set, matrix, scalers, counter, axis,
                   scaler_dict, outFile, ret, file0, matrix0, outFile0, touched,
                   last, cum>>

(***************************************************************************)
(* _chunk_file_lines (parallel.py:29-44) and the submission of one task    *)
(* per chunk (parallel.py:61-69).  range(0, len(lines), 0) raises.         *)
(***************************************************************************)
RECURSIVE ChunkLines(_, _)
\* [lines[i : i + chunk_size] for i in range(0, len(lines), chunk_size)]
ChunkLines(lines, chunk_size) ==
    IF Len(lines) = 0 THEN <<>>
    ELSE IF Len(lines) <= chunk_size THEN <<lines>>
    ELSE <<SubSeq(lines, 1, chunk_size)>>
         \o ChunkLines(SubSeq(lines, chunk_size + 1, Len(lines)), chunk_size)

ChunkFile ==
    /\ pc = "pre"
    /\ impl = "parallel"
    /\ UNCHANGED outsideRun
    /\ UNCHANGED <<mode, bounds, steps, big, use_fast_lp, n_workers, impl, fast, file, pt_set,
                   matrix, scalers, counter, axis, scaler_dict, outFile, ret, file0,
                   matrix0, outFile0, touched,
                   last, cum>>
    /\ io' = io \cup {"read_input"}
    /\ LET chunk_size == Len(file) \div n_workers IN
       IF chunk_size = 0
         THEN /\ RaiseRun("range_step_zero")
              /\ UNCHANGED <<chunks, results, processed_chunks>>
         ELSE /\ chunks' = ChunkLines(file, chunk_size)
              /\ results' = [i \in 1..Len(chunks') |-> [done |-> FALSE, lines |-> <<>>]]
              /\ processed_chunks' = [i \in 1..Len(chunks') |-> [set |-> FALSE, lines |-> <<>>]]
              /\ pc' = "workers"
              /\ err' = err

\* a worker of the pool finishes _process_file_chunk_regex on chunk i
WorkerFinish ==
    /\ pc = "workers"
    /\ \E i \in 1..Len(chunks) :
         /\ ~results[i].done
         /\ results' = [results EXCEPT ![i] = [done |-> TRUE, lines |-> ProcessChunk(chunks[i])]]
    /\ UNCHANGED outsideRun
    /\ UNCHANGED <<mode, bounds, steps, big, use_fast_lp, n_workers, pc, impl, fast, err, file,
                   chunks, processed_chunks, pt_set, matrix, scalers, counter, axis,
                   scaler_dict, outFile, ret, file0, matrix0, outFile0, io, touched,
                   last, cum>>

\* "for i, future in futures: processed_chunks[i] = future.result()": the
\* caller waits for the futures in submission order
Collect ==
    /\ pc = "workers"
    /\ \E i \in 1..Len(chunks) :
         /\ ~processed_chunks[i].set
         /\ \A j \in 1..(i - 1) : processed_chunks[j].set
         /\ results[i].done
         /\ processed_chunks' = [processed_chunks EXCEPT
                                   ![i] = [set |-> TRUE, lines |-> results[i].lines]]
    /\ UNCHANGED outsideRun
    /\ UNCHANGED <<mode, bounds, steps, big, use_fast_lp, n_workers, pc, impl, fast, err, file,
                   chunks, results, pt_set, matrix, scalers, counter, axis,
                   scaler_dict, outFile, ret, file0, matrix0, outFile0, io, touched,
                   last, cum>>

RECURSIVE Flatten(_)
Flatten(cs) == IF cs = <<>> THEN <<>> ELSE Head(cs).lines \o Flatten(Tail(cs))

\* parallel.py:73-76 and 236: the chunks are written back in index order
WriteBack ==
    /\ pc = "workers"
    /\ \A i \in 1..Len(chunks) : processed_chunks[i].set
    /\ file' = Flatten(processed_chunks)
    /\ io' = io \cup {"write_input"}
    /\ pt_set' = TRUE
    /\ pc' = "read"
    /\ UNCHANGED outsideRun
    /\ UNCHANGED <<mode, bounds, steps, big, use_fast_lp, n_workers, impl, fast, err,
                   chunks, results, processed_chunks, matrix, scalers, counter, axis,
                   scaler_dict, outFile, ret, file0, matrix0, outFile0, touched,
                   last, cum>>

(***************************************************************************)
(* lp.read_mps(path); lp.read_matrix(): the parse of the problem file,     *)
(* which yields the matrix the file holds or raises.  LPdiagFast first     *)
(* rewrites the file with the forward transform (lp_diag_fast.py:99-120).  *)
(***************************************************************************)
ReadMps ==
    /\ pc = "read"
    /\ file' = IF fast THEN ProcessChunk(file) ELSE file
    /\ io' = io \cup (IF fast THEN {"read_input", "write_input"} ELSE {"read_input"})
    /\ \E ok \in BOOLEAN :
         IF ok THEN /\ matrix' = matrix0
                    /\ pc' = "scale"
                    /\ err' = err
               ELSE /\ RaiseRun("format_error")
                    /\ matrix' = matrix
    /\ UNCHANGED outsideRun
    /\ UNCHANGED <<mode, bounds, steps, big, use_fast_lp, n_workers, impl, fast,
                   chunks, results, processed_chunks, pt_set, scalers, counter, axis,
                   scaler_dict, outFile, ret, file0, matrix0, outFile0, touched,
                   last, cum>>

(***************************************************************************)
(* One pass of the body of "for s in scalers.keys()" inside                *)
(* "while counter < steps" (scaler.py:79-88, parallel.py:262-276).         *)
(***************************************************************************)
ScalingStep(m, sc, s, b, c) ==
    IF impl = "parallel" THEN StepParallel(m, sc, s, b, c) ELSE StepStandard(m, sc, s, b, c)

\* a column step that computes from the matrix the row step was given
ScaleStepStale ==
    /\ pc = "scale"
    /\ counter < steps
    /\ BoundsOk(bounds)
    /\ UNCHANGED outsideRun
    /\ UNCHANGED <<mode, bounds, steps, big, use_fast_lp, n_workers, impl, fast, file,
                   chunks, results, processed_chunks, pt_set, scaler_dict, outFile, ret,
                   file0, matrix0, outFile0, io, pc, err>>
    /\ LET m == IF axis = "col" /\ last.set THEN last.matrix ELSE matrix
           r == ScalingStep(m, scalers, axis, bounds, counter)
       IN /\ matrix' = r.matrix
          /\ scalers' = r.scalers
          /\ touched' = touched \cup {<<axis, a>> : a \in {x \in DOMAIN r.step : r.step[x] # 0}}
          /\ last' = [set |-> TRUE, matrix |-> m, axis |-> axis, step |-> r.step]
          /\ cum' = [cum EXCEPT ![axis] =
                       [a \in DOMAIN r.step |-> CumOf(cum[axis], a) + r.step[a]]]
          /\ axis' = IF axis = "row" THEN "col" ELSE "row"
          /\ counter' = IF axis = "col" THEN counter + 1 ELSE counter

ScaleStep ==
    /\ pc = "scale"
    /\ counter < steps
    /\ UNCHANGED outsideRun
    /\ UNCHANGED <<mode, bounds, steps, big, use_fast_lp, n_workers, impl, fast, file,
                   chunks, results, processed_chunks, pt_set, scaler_dict, outFile, ret,
                   file0, matrix0, outFile0, io>>
    /\ IF ~BoundsOk(bounds)
         THEN /\ RaiseRun("bad_bounds")
              /\ UNCHANGED <<matrix, scalers, counter, axis, touched, last, cum>>
         ELSE LET r == ScalingStep(matrix, scalers, axis, bounds, counter) IN
              /\ matrix' = r.matrix
              /\ scalers' = r.scalers
              /\ touched' = touched \cup {<<axis, a>> : a \in {x \in DOMAIN r.step : r.step[x] # 0}}
              /\ last' = [set |-> TRUE, matrix |-> matrix, axis |-> axis, step |-> r.step]
              /\ cum' = [cum EXCEPT ![axis] =
                            [a \in DOMAIN r.step |-> CumOf(cum[axis], a) + r.step[a]]]
              /\ axis' = IF axis = "row" THEN "col" ELSE "row"
              /\ counter' = IF axis = "col" THEN counter + 1 ELSE counter
              /\ UNCHANGED <<pc, err>>

(***************************************************************************)
(* scaler.py:90-130, parallel.py:283-315: the statement set.  With         *)
(* steps = 0 the tables are still the lists of line 76, which have no .loc *)
(***************************************************************************)
Emit ==
    /\ pc = "scale"
    /\ counter >= steps
    /\ UNCHANGED outsideRun
    /\ UNCHANGED <<mode, bounds, steps, big, use_fast_lp, n_workers, impl, fast, file,
                   chunks, results, processed_chunks, pt_set, matrix, scalers, counter,
                   axis, outFile, ret, file0, matrix0, outFile0, io, touched,
                   last, cum>>
    /\ IF DOMAIN scalers.row = {}
         THEN /\ RaiseRun("attribute_error")
              /\ scaler_dict' = scaler_dict
         ELSE /\ \E ro \in Orders(NonUnit(scalers.row)), co \in Orders(NonUnit(scalers.col)) :
                   scaler_dict' = BuildDict(scalers, ro, co)
              /\ pc' = "write"
              /\ err' = err

(***************************************************************************)
(* scaler.py:132-146, parallel.py:320-331: the statements are written to   *)
(* the scale-statement file, or the directory or file cannot be created.   *)
(***************************************************************************)
\* the statement file rewritten while the scaling is still under way
WriteFileEarly ==
    /\ pc \in {"scale", "write"}
    /\ outFile' = [exists |-> TRUE, text |-> scaler_dict]
    /\ io' = io \cup {"write_output"}
    /\ pc' = IF pc = "write" THEN "report" ELSE pc
    /\ UNCHANGED outsideRun
    /\ UNCHANGED <<mode, bounds, steps, big, use_fast_lp, n_workers, impl, fast, err, file,
                   chunks, results, processed_chunks, pt_set, matrix, scalers, counter,
                   axis, scaler_dict, ret, file0, matrix0, outFile0, touched,
                   last, cum>>

WriteFile ==
    /\ pc = "write"
    /\ \E ok \in BOOLEAN :
         IF ok THEN /\ outFile' = [exists |-> TRUE, text |-> scaler_dict]
                    /\ io' = io \cup {"write_output"}
                    /\ pc' = "report"
                    /\ err' = err
               ELSE /\ RaiseRun("os_error")
                    /\ UNCHANGED <<outFile, io>>
    /\ UNCHANGED outsideRun
    /\ UNCHANGED <<mode, bounds, steps, big, use_fast_lp, n_workers, impl, fast, file,
                   chunks, results, processed_chunks, pt_set, matrix, scalers, counter,
                   axis, scaler_dict, ret, file0, matrix0, outFile0, touched,
                   last, cum>>

(***************************************************************************)
(* scaler.py:148; parallel.py:333-345: the timing report, which reads the  *)
(* local preprocessing_time, and the return of the table.                  *)
(***************************************************************************)
Return ==
    /\ pc = "report"
    /\ IF impl = "parallel" /\ ~pt_set
         THEN /\ RaiseRun("unbound_local")
              /\ ret' = ret
         ELSE /\ ret' = [set |-> TRUE, table |-> scaler_dict]
              /\ pc' = "returned"
              /\ err' = err
    /\ UNCHANGED outsideRun
    /\ UNCHANGED <<mode, bounds, steps, big, use_fast_lp, n_workers, impl, fast, file,
                   chunks, results, processed_chunks, pt_set, matrix, scalers, counter,
                   axis, scaler_dict, outFile, file0, matrix0, outFile0, io, touched,
                   last, cum>>

(***************************************************************************)
(* Inputs.                                                                 *)
(***************************************************************************)
RA == <<"r">>

RB == <<"e", "(", "a", ")">>

CA == <<"x">>

CB == <<"y", "(", "'", "b", "'", ")">>

\* the index of the matrices: an objective row and two constraints, two columns
ScaleCells == {OBJ, RA, RB} \X {CA, CB}

\* coefficients: 0, 10^-2.5, 10^0.5 and 10^3
CoefSet == {Zero, Coef(-5), Coef(1), Coef(6)}

Matrices == [ScaleCells -> CoefSet]

ScaleBounds == {IntBounds(2), PairBounds(-1, 3)}

\* the lines of the problem files of the preprocessing
PreLines == { <<"a">>,
              <<"'", "a", " ", "a", "'">>,
              <<"a", " ", "'", "a">> }

RECURSIVE SeqsUpTo(_, _)
\* the sequences over S of length at most n
SeqsUpTo(S, n) ==
    IF n = 0 THEN {<<>>}
    ELSE LET shorter == SeqsUpTo(S, n - 1)
         IN shorter \cup {Append(q, x) : q \in {t \in shorter : Len(t) = n - 1}, x \in S}

OldStatements == [exists |-> TRUE, text |-> <<Stmt(RA \o DotScale, 3), Stmt(ControlKey, 0)>>]

(***************************************************************************)
(* SpecPre: _parallel_file_preprocessing on every file of at most          *)
(* MaxFileLines lines with every worker count up to MaxWorkers.            *)
(***************************************************************************)
InitPre ==
    /\ ParseIdle
    /\ QuoteIdle
    /\ RestIdle
    /\ RunDefaults
    /\ mode = "parallel"
    /\ bounds = IntBounds(2)
    /\ steps = 1
    /\ impl = "parallel"
    /\ pc = "pre"
    /\ file0 \in SeqsUpTo(PreLines, MaxFileLines)
    /\ file = file0
    /\ big = FALSE
    /\ use_fast_lp = "False"
    /\ n_workers \in 1..MaxWorkers
    /\ matrix = <<>>
    /\ matrix0 = <<>>
    /\ outFile = NoFile
    /\ outFile0 = NoFile

NextPre == ChunkFile \/ WorkerFinish \/ Collect \/ WriteBack

SpecPre == InitPre /\ [][NextPre]_vars

(***************************************************************************)
(* SpecScale: the scaling iterations and the statement set, in both        *)
(* implementations, on every matrix of Matrices.                           *)
(***************************************************************************)
InitScale ==
    /\ ParseIdle
    /\ QuoteIdle
    /\ RestIdle
    /\ RunDefaults
    /\ mode \in {"standard", "parallel"}
    /\ impl = mode
    /\ bounds \in ScaleBounds
    /\ steps \in 1..MaxSteps
    /\ big = FALSE
    /\ use_fast_lp = "False"
    /\ n_workers = 1
    /\ pc = "scale"
    /\ file = <<>>
    /\ file0 = <<>>
    /\ matrix0 \in Matrices
    /\ matrix = matrix0
    /\ outFile = NoFile
    /\ outFile0 = NoFile

NextScale == ScaleStep \/ Emit

SpecScale == InitScale /\ [][NextScale]_vars

(***************************************************************************)
(* SpecStep: one iteration of either implementation on every small matrix  *)
(* with a finer choice of magnitudes.                                      *)
(***************************************************************************)
StepCells == {OBJ, RA} \X {CA, CB}

\* coefficients: 0, 10^-2.5, 10^0.5, 10^1.5, 10^2.5 and 10^3
StepCoefs == {Zero, Coef(-5), Coef(1), Coef(3), Coef(5), Coef(6)}

InitStep ==
    /\ ParseIdle
    /\ QuoteIdle
    /\ RestIdle
    /\ RunDefaults
    /\ mode \in {"standard", "parallel"}
    /\ impl = mode
    /\ bounds \in ScaleBounds
    /\ steps = 1
    /\ big = FALSE
    /\ use_fast_lp = "False"
    /\ n_workers = 1
    /\ pc = "scale"
    /\ file = <<>>
    /\ file0 = <<>>
    /\ matrix0 \in [StepCells -> StepCoefs]
    /\ matrix = matrix0
    /\ outFile = NoFile
    /\ outFile0 = NoFile

SpecStep == InitStep /\ [][NextScale]_vars

(***************************************************************************)
(* SpecNames: runs on matrices whose rows and columns share names: a row   *)
(* and a column named like the sentinel of the other axis, and a row and a *)
(* column that differ only in the quotes of their parameter.               *)
(***************************************************************************)
CBQ == <<"e", "(", "'", "a", "'", ")">>

NameCells == {OBJ, CONSTOBJ, RB} \X {CONSTOBJ, OBJ, CBQ}

\* coefficients: 10^0.5 and 10^3
NameCoefs == {Coef(1), Coef(6)}

InitNames ==
    /\ ParseIdle
    /\ QuoteIdle
    /\ RestIdle
    /\ RunDefaults
    /\ mode \in {"standard", "parallel"}
    /\ impl = mode
    /\ bounds \in ScaleBounds
    /\ steps \in 1..MaxSteps
    /\ big = FALSE
    /\ use_fast_lp = "False"
    /\ n_workers = 1
    /\ pc = "scale"
    /\ file = <<>>
    /\ file0 = <<>>
    /\ matrix0 \in [NameCells -> NameCoefs]
    /\ matrix = matrix0
    /\ outFile = NoFile
    /\ outFile0 = NoFile

SpecNames == InitNames /\ [][NextScale]_vars


(***************************************************************************)
(* SpecRun: whole runs of make_scaler, from the call to the return or the  *)
(* exception, for every mode, parser choice and worker count, valid and    *)
(* malformed bounds, steps from 0, on a few files and matrices.            *)
(***************************************************************************)
RunModes == {"standard", "parallel", "auto", "turbo"}

RunFiles == { <<<<"'", "a", " ", "a", "'">>>>,
              <<<<"a">>, <<"a">>>> }

\* one matrix with outliers, one without
RunMatrices ==
    { [c \in ScaleCells |-> IF c[1] = RA THEN Coef(6) ELSE Coef(1)],
      [c \in ScaleCells |-> Coef(1)] }

InitRun ==
    /\ ParseIdle
    /\ QuoteIdle
    /\ RestIdle
    /\ RunDefaults
    /\ mode \in RunModes
    /\ impl = "standard"
    /\ bounds \in {IntBounds(2), BadBounds}
    /\ steps \in 0..MaxSteps
    /\ big \in BOOLEAN
    /\ use_fast_lp \in {"None", "True", "False"}
    /\ n_workers \in 1..MaxWorkers
    /\ pc = "call"
    /\ file0 \in RunFiles
    /\ file = file0
    /\ matrix0 \in RunMatrices
    /\ matrix = <<>>
    /\ outFile0 \in {NoFile, OldStatements}
    /\ outFile = outFile0

NextRun ==
    \/ Dispatch
    \/ PreprocessStandard
    \/ ChunkFile
    \/ WorkerFinish
    \/ Collect
    \/ WriteBack
    \/ ReadMps
    \/ ScaleStep
    \/ Emit
    \/ WriteFile
    \/ Return

SpecRun == InitRun /\ [][NextRun]_vars

(***************************************************************************)
(* SpecQuote: the quoting rule of the emitter (scaler.py:107-114) applied  *)
(* to every parameter of at most MaxParamLen characters, and then to its   *)
(* own output.                                                             *)
(***************************************************************************)
ParamChars == {QUOTE, "a", " "}

InitQuote ==
    /\ ParseIdle
    /\ RunIdle
    /\ RestIdle
    /\ q_param \in SeqsUpTo(ParamChars, MaxParamLen)
    /\ q_emitted = <<>>
    /\ q_again = <<>>
    /\ q_pc = "param"

QuoteOnce ==
    /\ q_pc = "param"
    /\ q_emitted' = QuoteParam(q_param)
    /\ q_pc' = "once"
    /\ UNCHANGED <<q_param, q_again>>
    /\ UNCHANGED outsideQuote

QuoteAgain ==
    /\ q_pc = "once"
    /\ q_again' = QuoteParam(q_emitted)
    /\ q_pc' = "twice"
    /\ UNCHANGED <<q_param, q_emitted>>
    /\ UNCHANGED outsideQuote

NextQuote == QuoteOnce \/ QuoteAgain

SpecQuote == InitQuote /\ [][NextQuote]_vars

(***************************************************************************)
(* SpecTrip: the forward transform of the quote normalizer applied to      *)
(* every string of at most MaxTextLen characters, and the inverse          *)
(* transform applied to the result.                                        *)
(***************************************************************************)
TextChars == {QUOTE, "a", " ", "_", "-"}

InitTrip ==
    /\ ParseIdle
    /\ RunIdle
    /\ QuoteIdle
    /\ BufIdle
    /\ ChunkIdle
    /\ KeyIdle
    /\ LogIdle
    /\ FilterIdle
    /\ LookupIdle
    /\ PoolIdle
    /\ t_text \in SeqsUpTo(TextChars, MaxTextLen)
    /\ t_replaced = <<>>
    /\ t_restored = <<>>
    /\ t_pc = "text"

\* pattern.sub(replace_spaces_in_quotes, text)
Replace ==
    /\ t_pc = "text"
    /\ t_replaced' = QuoteSub(t_text)
    /\ t_pc' = "replaced"
    /\ UNCHANGED <<t_text, t_restored>>
    /\ UNCHANGED outsideTrip

\* pattern.sub(return_spaces_in_quotes, replaced)
Restore ==
    /\ t_pc = "replaced"
    /\ t_restored' = ReturnSub(t_replaced)
    /\ t_pc' = "restored"
    /\ UNCHANGED <<t_text, t_replaced>>
    /\ UNCHANGED outsideTrip

NextTrip == Replace \/ Restore

SpecTrip == InitTrip /\ [][NextTrip]_vars

(***************************************************************************)
(* SpecLog: optimized_make_logdf applied to every table of at most         *)
(* MaxTable values, each zero or plus or minus a power of ten.             *)
(***************************************************************************)
Values == {-100, -10, -1, 0, 1, 10, 100}

InitLog ==
    /\ ParseIdle
    /\ RunIdle
    /\ QuoteIdle
    /\ BufIdle
    /\ ChunkIdle
    /\ KeyIdle
    /\ TripIdle
    /\ FilterIdle
    /\ LookupIdle
    /\ PoolIdle
    /\ g_data \in SeqsUpTo(Values, MaxTable)
    /\ g_data0 = g_data
    /\ g_log = <<>>
    /\ g_pc = "data"

\* the call: a new table is returned, the table passed in is only read
MakeLogdf ==
    /\ g_pc = "data"
    /\ g_log' = LogArr(g_data)
    /\ g_pc' = "done"
    /\ UNCHANGED <<g_data, g_data0>>
    /\ UNCHANGED outsideLog

NextLog == MakeLogdf

SpecLog == InitLog /\ [][NextLog]_vars

(***************************************************************************)
(* SpecFilter: optimized_filter_df applied to every table of at most       *)
(* MaxTable magnitudes, once with an integer bound b and once with the     *)
(* pair [-b, b].                                                           *)
(***************************************************************************)
Magnitudes == -3..3

BoundArgs == -1..3

InitFilter ==
    /\ ParseIdle
    /\ RunIdle
    /\ QuoteIdle
    /\ BufIdle
    /\ ChunkIdle
    /\ KeyIdle
    /\ TripIdle
    /\ LogIdle
    /\ LookupIdle
    /\ PoolIdle
    /\ f_data \in SeqsUpTo(Magnitudes, MaxTable)
    /\ f_b \in BoundArgs
    /\ f_int = <<>>
    /\ f_pair = <<>>
    /\ f_pc = "data"

\* optimized_filter_df(data, b)
FilterInt ==
    /\ f_pc = "data"
    /\ f_int' = FilterDf(f_data, IntBounds(f_b))
    /\ f_pc' = "int"
    /\ UNCHANGED <<f_data, f_b, f_pair>>
    /\ UNCHANGED outsideFilter

\* optimized_filter_df(data, [-b, b])
FilterPair ==
    /\ f_pc = "int"
    /\ f_pair' = FilterDf(f_data, PairBounds(-f_b, f_b))
    /\ f_pc' = "both"
    /\ UNCHANGED <<f_data, f_b, f_int>>
    /\ UNCHANGED outsideFilter

NextFilter == FilterInt \/ FilterPair

SpecFilter == InitFilter /\ [][NextFilter]_vars

(***************************************************************************)
(* SpecLookup: get_scaler_args for a model/scenario pair, with every       *)
(* content of the scaler directory.                                        *)
(***************************************************************************)
RECURSIVE Underscores(_)
\* s.replace(" ", "_")
Underscores(s) ==
    IF s = <<>> THEN <<>>
    ELSE <<IF Head(s) = " " THEN "_" ELSE Head(s)>> \o Underscores(Tail(s))

\* the name of the scale-statement file of a model/scenario pair, without the
\* prefix "MsgScaler_" and the extension
GmsName(model, scenario) == Underscores(model) \o <<"_">> \o Underscores(scenario)

ScenNames == { <<"m">>, <<"m", " ", "x">>, <<"n">> }

\* the diagnostic of a lookup that finds no file
NoPrescalerFile == "doesn't have prescaler file"

\* the lookup with a missing file reported as an exception
GetScalerArgsRaises ==
    /\ k_pc = "call"
    /\ IF GmsName(k_model, k_scenario) \in k_files
         THEN /\ k_ret' = [set |-> TRUE, none |-> FALSE, arg |-> GmsName(k_model, k_scenario)]
              /\ UNCHANGED <<k_out, k_raised>>
         ELSE /\ k_raised' = TRUE
              /\ UNCHANGED <<k_ret, k_out>>
    /\ k_pc' = "done"
    /\ UNCHANGED <<k_model, k_scenario, k_files, k_files0>>
    /\ UNCHANGED outsideLookup

\* get_scaler_args(model, scenario): the solver argument naming the file, or
\* None and a message when the file does not exist
GetScalerArgs ==
    /\ k_pc = "call"
    /\ IF GmsName(k_model, k_scenario) \in k_files
         THEN /\ k_ret' = [set |-> TRUE, none |-> FALSE, arg |-> GmsName(k_model, k_scenario)]
              /\ k_out' = k_out
         ELSE /\ k_ret' = [set |-> TRUE, none |-> TRUE, arg |-> <<>>]
              /\ k_out' = Append(k_out, NoPrescalerFile)
    /\ k_pc' = "done"
    /\ UNCHANGED <<k_model, k_scenario, k_files, k_files0, k_raised>>
    /\ UNCHANGED outsideLookup

InitLookup ==
    /\ ParseIdle
    /\ RunIdle
    /\ QuoteIdle
    /\ BufIdle
    /\ ChunkIdle
    /\ KeyIdle
    /\ TripIdle
    /\ LogIdle
    /\ FilterIdle
    /\ PoolIdle
    /\ k_model \in ScenNames
    /\ k_scenario \in ScenNames
    /\ k_files \in SUBSET {GmsName(m, sc) : m \in {<<"m">>, <<"n">>}, sc \in ScenNames}
    /\ k_files0 = k_files
    /\ k_ret = NoResult
    /\ k_out = <<>>
    /\ k_raised = FALSE
    /\ k_pc = "call"

NextLookup == GetScalerArgs

SpecLookup == InitLookup /\ [][NextLookup]_vars

(***************************************************************************)
(* SpecPool: _parallel_scaling_operations (parallel.py:79-107) at counter  *)
(* 0.  The row task and the column task are submitted to a pool of one or  *)
(* two threads with the same matrix; a task computes its step, then stores *)
(* its table in the shared dict and gives its matrix as its result.        *)
(***************************************************************************)
\* a pool thread is free for the task of axis s: tasks start in the order of
\* their submission, row first, and at most o_workers run at a time
CanStart(s) ==
    /\ o_task[s].pc = "queued"
    /\ s = "col" =>
         /\ o_task["row"].pc # "queued"
         /\ o_workers = 1 => o_task["row"].pc = "done"

\* parallel.py:113-154 in a pool thread: the step of axis s from the matrix
\* the task was given and the shared dict as it is now
TaskCompute(s) ==
    /\ o_pc = "pool"
    /\ CanStart(s)
    /\ LET r == StepParallel(o_matrix, o_scalers, s, o_bounds, 0) IN
         o_task' = [o_task EXCEPT ![s] =
                      [pc |-> "computed", step |-> r.scalers[s], result |-> r.matrix]]
    /\ UNCHANGED <<o_matrix, o_bounds, o_workers, o_scalers, o_ret, o_pc>>
    /\ UNCHANGED outsidePool

\* parallel.py:154-162: scalers[s] = step_scaler, and the return of the task
TaskFinish(s) ==
    /\ o_pc = "pool"
    /\ o_task[s].pc = "computed"
    /\ o_scalers' = [o_scalers EXCEPT ![s] = o_task[s].step]
    /\ o_task' = [o_task EXCEPT ![s].pc = "done"]
    /\ UNCHANGED <<o_matrix, o_bounds, o_workers, o_ret, o_pc>>
    /\ UNCHANGED outsidePool

\* parallel.py:103-107: "for s, future in futures: matrix = future.result()"
\* and the return: the result of the task submitted last
CollectResults ==
    /\ o_pc = "pool"
    /\ \A s \in {"row", "col"} : o_task[s].pc = "done"
    /\ o_ret' = [set |-> TRUE, matrix |-> o_task["col"].result]
    /\ o_pc' = "returned"
    /\ UNCHANGED <<o_matrix, o_bounds, o_workers, o_scalers, o_task>>
    /\ UNCHANGED outsidePool

InitPool ==
    /\ ParseIdle
    /\ RunIdle
    /\ QuoteIdle
    /\ BufIdle
    /\ ChunkIdle
    /\ KeyIdle
    /\ TripIdle
    /\ LogIdle
    /\ FilterIdle
    /\ LookupIdle
    /\ o_matrix \in [StepCells -> StepCoefs]
    /\ o_bounds \in ScaleBounds
    /\ o_workers \in 1..2
    /\ o_scalers = NoScalers
    /\ o_task = [s \in {"row", "col"} |-> NoTask]
    /\ o_ret = [set |-> FALSE, matrix |-> <<>>]
    /\ o_pc = "pool"

NextPool == (\E s \in {"row", "col"} : TaskCompute(s) \/ TaskFinish(s)) \/ CollectResults

SpecPool == InitPool /\ [][NextPool]_vars

(***************************************************************************)
(* SpecKey: the statement key of every identifier NAME(p1,...,pn) with up  *)
(* to MaxParams parameters, bare or quoted, a quoted one possibly holding a *)
(* comma or a parenthesis.                                                 *)
(***************************************************************************)
KeyNames == { <<"e">>, <<"e", "_", "f">> }

KeyParams == { <<"a">>, <<"b">>,
               <<QUOTE, "a", QUOTE>>,
               <<QUOTE, "a", ",", "b", QUOTE>>,
               <<QUOTE, "a", ")", "b", QUOTE>>,
               <<QUOTE, "a", "(", "b", QUOTE>> }

\* the axis value as it stands in the index of the factor table
Identifier(name, params) == name \o <<"(">> \o Join(params) \o <<")">>

InitKey ==
    /\ ParseIdle
    /\ RunIdle
    /\ QuoteIdle
    /\ BufIdle
    /\ ChunkIdle
    /\ TripIdle
    /\ LogIdle
    /\ FilterIdle
    /\ LookupIdle
    /\ PoolIdle
    /\ y_name \in KeyNames
    /\ y_params \in SeqsUpTo(KeyParams, MaxParams) \ {<<>>}
    /\ y_key = <<>>
    /\ y_pc = "ident"

\* scaler.py:95-121 for one k of the table
BuildKey ==
    /\ y_pc = "ident"
    /\ y_key' = MakeKey(Identifier(y_name, y_params))
    /\ y_pc' = "done"
    /\ UNCHANGED <<y_name, y_params>>
    /\ UNCHANGED outsideKey

NextKey == BuildKey

SpecKey == InitKey /\ [][NextKey]_vars

(***************************************************************************)
(* SpecChunk: the chunked read of read_mps.  The file is a sequence of     *)
(* bytes, the UTF-8 encoding of a text; every chunk is decoded on its own  *)
(* and split into lines, the partial last line carried over.               *)
(***************************************************************************)
NL == "\n"

EAcute == "U+00E9"          \* a character of two bytes in UTF-8

Replacement == "U+FFFD"     \* what errors='replace' puts for undecodable bytes

LeadByte == "0xC3"

ContByte == "0xA9"

FileChars == {"a", NL, EAcute}

Min(i, j) == IF i <= j THEN i ELSE j

RECURSIVE Encode(_)
Encode(text) ==
    IF text = <<>> THEN <<>>
    ELSE (IF Head(text) = EAcute THEN <<LeadByte, ContByte>> ELSE <<Head(text)>>)
         \o Encode(Tail(text))

\* bytes.decode('utf-8', errors='replace')
RECURSIVE Decode(_)
Decode(bs) ==
    IF bs = <<>> THEN <<>>
    ELSE IF Head(bs) = LeadByte
         THEN IF Len(bs) >= 2 /\ bs[2] = ContByte
              THEN <<EAcute>> \o Decode(Tail(Tail(bs)))
              ELSE <<Replacement>> \o Decode(Tail(bs))
    ELSE IF Head(bs) = ContByte THEN <<Replacement>> \o Decode(Tail(bs))
    ELSE <<Head(bs)>> \o Decode(Tail(bs))

\* text.split('\n'): one piece more than there are newlines
RECURSIVE SplitNL(_)
SplitNL(text) ==
    IF \A i \in 1..Len(text) : text[i] # NL THEN <<text>>
    ELSE LET i == CHOOSE j \in 1..Len(text) :
                      text[j] = NL /\ \A l \in 1..(j - 1) : text[l] # NL
         IN  <<SubSeq(text, 1, i - 1)>> \o SplitNL(SubSeq(text, i + 1, Len(text)))

InitChunk ==
    /\ ParseIdle
    /\ RunIdle
    /\ QuoteIdle
    /\ BufIdle
    /\ TripIdle
    /\ LogIdle
    /\ FilterIdle
    /\ LookupIdle
    /\ PoolIdle
    /\ KeyIdle
    /\ \E text \in SeqsUpTo(FileChars, MaxChars) : c_file = Encode(text)
    /\ c_size \in 1..MaxChunk
    /\ c_pos = 0
    /\ c_buffer = <<>>
    /\ c_lines = <<>>
    /\ c_pc = "read"

\* lp_diag_fast.py:134-146: one f.read(chunk_size) that returns bytes
ReadChunk ==
    /\ c_pc = "read"
    /\ c_pos < Len(c_file)
    /\ LET chunk == SubSeq(c_file, c_pos + 1, Min(c_pos + c_size, Len(c_file)))
           text == c_buffer \o Decode(chunk)
           lines == SplitNL(text)
       IN  /\ c_buffer' = lines[Len(lines)]
           /\ c_lines' = c_lines \o SubSeq(lines, 1, Len(lines) - 1)
           /\ c_pos' = c_pos + Len(chunk)
    /\ UNCHANGED <<c_file, c_size, c_pc>>
    /\ UNCHANGED outsideChunk

\* lp_diag_fast.py:135-136: the read that returns nothing ends the loop
EndOfChunks ==
    /\ c_pc = "read"
    /\ c_pos = Len(c_file)
    /\ c_pc' = "done"
    /\ UNCHANGED <<c_file, c_size, c_pos, c_buffer, c_lines>>
    /\ UNCHANGED outsideChunk

NextChunk == ReadChunk \/ EndOfChunks

SpecChunk == InitChunk /\ [][NextChunk]_vars

(***************************************************************************)
(* SpecBuf: the matrix arrays of LPdiagFast, from construction with an     *)
(* initial capacity, through appends with growth, to the final trim.       *)
(***************************************************************************)
\* the (row, column, value) triples that are appended, and that the
\* uninitialised slots of np.empty may happen to hold
BufEntries == { <<0, 0, 1>>, <<1, 0, 2>>, <<0, 1, 1>> }

\* a fresh allocation in place of np.resize: the old slots are not copied
ResizeFresh(arr, n) == [i \in 0..(n - 1) |-> <<0, 0, 0>>]

\* np.resize(a, n): the first n slots of a, repeated as often as needed;
\* nothing to repeat gives zeros
Resize(arr, n) ==
    LET old == Cardinality(DOMAIN arr)
    IN  [i \in 0..(n - 1) |-> IF old = 0 THEN <<0, 0, 0>> ELSE arr[i % old]]

InitBuf ==
    /\ ParseIdle
    /\ RunIdle
    /\ QuoteIdle
    /\ TripIdle
    /\ LogIdle
    /\ FilterIdle
    /\ LookupIdle
    /\ PoolIdle
    /\ KeyIdle
    /\ ChunkIdle
    /\ b_capacity \in 0..MaxCapacity
    /\ b_size = 0
    /\ b_arr \in [0..(b_capacity - 1) -> BufEntries]
    /\ b_hist = <<>>
    /\ b_pc = "append"

\* _add_matrix_element, _grow_arrays included; the store into a slot that
\* does not exist raises IndexError
AddElement ==
    /\ b_pc = "append"
    /\ Len(b_hist) < MaxAppends
    /\ \E e \in BufEntries :
         LET full == b_size >= b_capacity
             cap  == IF full THEN b_capacity * 2 ELSE b_capacity
             arr  == IF full THEN Resize(b_arr, cap) ELSE b_arr
         IN  /\ b_capacity' = cap
             /\ IF b_size < cap
                  THEN /\ b_arr' = [arr EXCEPT ![b_size] = e]
                       /\ b_size' = b_size + 1
                       /\ b_hist' = Append(b_hist, e)
                       /\ b_pc' = "append"
                  ELSE /\ b_arr' = arr
                       /\ b_pc' = "error"
                       /\ UNCHANGED <<b_size, b_hist>>
    /\ UNCHANGED outsideBuf

\* read_mps, lines 203-206: the arrays are cut to the entry count
TrimArrays ==
    /\ b_pc = "append"
    /\ b_arr' = [i \in 0..(b_size - 1) |-> b_arr[i]]
    /\ b_pc' = "trimmed"
    /\ UNCHANGED <<b_capacity, b_size, b_hist>>
    /\ UNCHANGED outsideBuf

NextBuf == AddElement \/ TrimArrays

SpecBuf == InitBuf /\ [][NextBuf]_vars


(***************************************************************************)
(* read_mps, lines 146-191: one newline-terminated line of the file.       *)
(***************************************************************************)
ReadLine ==
    /\ p_pc = "reading"
    /\ n_line < MaxLines
    /\ UNCHANGED outsideParse
    /\ \E line \in LineVocab :
         LET n == n_line + 1 IN
         /\ n_line' = n
         /\ History(line, n, IsHeader(line))
         /\ lastTerm' = lastTerm
         /\ IF IsSkipped(line)
              THEN UNCHANGED <<lp, n_section, next_sect, p_pc, p_err>>
            ELSE IF IsHeader(line)
              THEN LET expected_idx == SectionIndex(line.words[1]) IN
                   IF expected_idx >= next_sect
                     THEN /\ n_section' = expected_idx
                          /\ next_sect' = expected_idx + 1
                          /\ lp' = [lp EXCEPT
                                      !.n_lines = n,
                                      !.prob_name =
                                         IF expected_idx = 0 /\ Len(line.words) > 1
                                         THEN line.words[2] ELSE @]
                          /\ UNCHANGED <<p_pc, p_err>>
                     ELSE /\ lp' = [lp EXCEPT !.n_lines = n]
                          /\ p_pc' = "error"
                          /\ p_err' = Raise("out_of_order", n)
                          /\ UNCHANGED <<n_section, next_sect>>
            ELSE LET r == SectionHandler(n_section, lp, line.words, n) IN
                 /\ lp' = r.o
                 /\ p_err' = r.err
                 /\ p_pc' = IF r.err.kind = "none" THEN "reading" ELSE "error"
                 /\ UNCHANGED <<n_section, next_sect>>

(***************************************************************************)
(* read_mps, lines 193-208: end of file.  `buf` is what follows the last   *)
(* newline (kind "empty": nothing); it is handed to the section handler    *)
(* without header recognition; then ENDATA is asserted, the arrays are     *)
(* trimmed and mps_sum runs.                                               *)
(***************************************************************************)
EndOfFile ==
    /\ p_pc = "reading"
    /\ UNCHANGED outsideParse
    /\ \E buf \in LineVocab :
         IF buf.kind = "empty"
           THEN /\ UNCHANGED <<lp, n_section, next_sect, n_line,
                               hdrSeen, lowHdr, colsFirst, badRef, lastTerm>>
                /\ p_err' = MpsSum(lp, n_section)
                /\ p_pc' = IF p_err'.kind = "none" THEN "ok" ELSE "error"
           ELSE LET n == n_line + 1
                    r == SectionHandler(n_section, lp, buf.words, n)
                IN /\ n_line' = n
                   /\ History(buf, n, FALSE)
                   /\ lastTerm' = FALSE
                   /\ lp' = r.o
                   /\ UNCHANGED <<n_section, next_sect>>
                   /\ p_err' = IF r.err.kind # "none" THEN r.err
                               ELSE MpsSum(r.o, n_section)
                   /\ p_pc' = IF p_err'.kind = "none" THEN "ok" ELSE "error"

InitParse ==
    /\ RunIdle
    /\ QuoteIdle
    /\ RestIdle
    /\ lp = NewLP
    /\ n_section = 0
    /\ next_sect = 0
    /\ n_line = 0
    /\ p_pc = "reading"
    /\ p_err = NoErr
    /\ hdrSeen = {}
    /\ lowHdr = 0
    /\ colsFirst = FALSE
    /\ badRef = 0
    /\ lastTerm = TRUE

NextParse == ReadLine \/ EndOfFile

SpecParse == InitParse /\ [][NextParse]_vars

(***************************************************************************)
(* All parts together.                                                     *)
(***************************************************************************)
Init == InitParse \/ InitPre \/ InitScale \/ InitRun \/ InitQuote \/ InitTrip \/ InitLog
        \/ InitFilter \/ InitLookup \/ InitStep \/ InitPool
        \/ InitNames \/ InitKey \/ InitChunk \/ InitBuf

Next == NextParse \/ NextRun \/ NextQuote \/ NextTrip \/ NextLog \/ NextFilter
        \/ NextLookup \/ NextPool \/ NextKey \/ NextChunk \/ NextBuf

Spec == Init /\ [][Next]_vars

(***************************************************************************)
(* Claims about the parser.                                                *)
(***************************************************************************)
\* C1: a section header whose canonical index is lower than the index of the
\* section being read aborts the parse with an error carrying the header's
\* line number, wherever in the file it stands; and a file that presents
\* COLUMNS before ROWS never parses successfully.
C1_OutOfOrderHeaderAborts ==
    /\ lowHdr # 0 => (p_pc = "error" /\ p_err.line = lowHdr)
    /\ colsFirst => p_pc # "ok"

\* C2: read_mps succeeds only on files that hold all four mandatory section
\* headers NAME, ROWS, COLUMNS and ENDATA (the optional ones may be absent).
C2_MandatoryHeadersNeeded ==
    p_pc = "ok" => {sections[i + 1] : i \in required_sections} \subseteq hdrSeen

\* C3: a COLUMNS content line that names an undeclared row in its 2nd or 4th
\* token makes the parse fail with an error carrying that line's number,
\* whatever the number of tokens on the line.
C3_UnknownRowAlwaysFails ==
    badRef # 0 => (p_pc = "error" /\ p_err.line = badRef)

(***************************************************************************)
(* Claims about the scaling engine, the emitter and the run.               *)
(***************************************************************************)
\* the scaling iterations of the run are over
ScalingOver == pc \in {"scale", "write"} /\ counter >= steps

\* the axis values of table tbl whose cumulative factor is not 1
Scaled(tbl) == {a \in DOMAIN tbl : tbl[a] # 0}

EmittedKeys == {scaler_dict[i].key : i \in 1..Len(scaler_dict)}

\* C4: for every matrix, bounds value and steps >= 1 the parallel path ends
\* with the same cumulative row and column factor tables as the standard path.
C4_ParallelEqualsStandard ==
    (ScalingOver /\ impl = "parallel")
        => scalers = RunStandard(matrix0, NoScalers, "row", bounds, 0, steps)

\* C5: for every file and worker count, _parallel_file_preprocessing ends
\* without error and leaves the file equal to the line-by-line forward
\* transform of its original content, lines in their original order.
C5_PreprocessingCompletes ==
    /\ pc # "raised"
    /\ pc = "read" => file = ProcessChunk(file0)

\* number of statements of a table or file text with key k
CountKey(text, k) == Cardinality({i \in 1..Len(text) : text[i].key = k})

\* C6: a configuration error is rejected before any file is read or written:
\* when the error for a bad mode or for malformed bounds is raised, no file
\* operation has happened and the problem file and the output file have the
\* content they had when make_scaler was called.
C6_ConfigErrorBeforeIO ==
    (pc = "raised" /\ err \in {"invalid_mode", "bad_bounds"}) =>
        /\ io \cap {"read_input", "write_input", "write_output"} = {}
        /\ file = file0
        /\ outFile = outFile0

\* C7: a run in parallel mode whose preprocessing, parsing, scaling and file
\* write all succeeded returns the table instead of raising, with either parser.
C7_ParallelRunReturns ==
    (impl = "parallel" /\ "write_output" \in io /\ pc \in {"returned", "raised"})
        => (pc = "returned" /\ ret.set)

\* C8: a run on a parsed matrix with valid bounds and any steps >= 0 (and no
\* failure to create the output file) ends having emitted the control
\* statement exactly once in the returned table and once in the written file.
C8_ControlStatementOnce ==
    ( /\ pc \in {"returned", "raised"}
      /\ DOMAIN matrix # {}
      /\ BoundsOk(bounds)
      /\ err # "os_error" )
    => /\ ret.set
       /\ CountKey(ret.table, ControlKey) = 1
       /\ "write_output" \in io
       /\ CountKey(outFile.text, ControlKey) = 1

\* C9: once the statement set is built, no statement other than the control
\* statement has the value 1, and the keys emitted are exactly the keys of the
\* rows and columns whose cumulative factor is not 1, plus the control key:
\* an axis value whose factor is 1 (also after cancelling steps) emits nothing.
C9_UnitFactorsDropped ==
    pc = "write" =>
      /\ \A i \in 1..Len(scaler_dict) :
            scaler_dict[i].key # ControlKey => scaler_dict[i].exp # 0
      /\ EmittedKeys = {MakeKey(a) : a \in Scaled(scalers.row) \cup Scaled(scalers.col)}
                          \cup {ControlKey}

\* C9 witness: a statement set was built while some axis value that had got
\* a non-unit factor in one iteration is back at the cumulative factor 1, and
\* its key is not emitted.
C9_Witness ==
    /\ pc = "write"
    /\ \E t \in touched : /\ scalers[t[1]][t[2]] = 0
                          /\ MakeKey(t[2]) \notin EmittedKeys

\* C10: the quoting rule leaves a parameter that starts and ends with a quote
\* byte-identical; to a parameter that (trimmed) is not quoted it adds exactly
\* one leading and one trailing quote; applied to its own output it changes
\* nothing, so that no parameter is ever wrapped in quotes twice.
C10_QuotingIdempotent ==
    LET t == Strip(q_param) IN
    /\ (q_pc \in {"once", "twice"} /\ Len(q_param) > 0
           /\ q_param[1] = QUOTE /\ q_param[Len(q_param)] = QUOTE)
         => q_emitted = q_param
    /\ (q_pc \in {"once", "twice"}
           /\ ~(Len(t) > 0 /\ t[1] = QUOTE /\ t[Len(t)] = QUOTE))
         => /\ Len(q_emitted) = Len(t) + 2
            /\ q_emitted[1] = QUOTE
            /\ q_emitted[Len(q_emitted)] = QUOTE
            /\ SubSeq(q_emitted, 2, Len(q_emitted) - 1) = t
    /\ q_pc = "twice" => q_again = q_emitted

\* C10 witness: the rule met a parameter already in quotes, emitted it as it
\* was, and met its own output again.
C10_Witness ==
    /\ q_pc = "twice"
    /\ q_param = <<QUOTE, "a", QUOTE>>
    /\ q_emitted = q_param
    /\ q_again = q_param

(***************************************************************************)
(* Claims about the quote normalizer.                                      *)
(***************************************************************************)
\* a single-quoted span of the text holds a space
RECURSIVE HasQuotedSpace(_)
HasQuotedSpace(s) ==
    LET i == IndexOf(s, QUOTE) IN
    IF i = 0 THEN FALSE
    ELSE LET rest == SubSeq(s, i + 1, Len(s))
             j    == IndexOf(rest, QUOTE)
         IN IF j = 0 THEN FALSE
            ELSE (\E k \in 1..(j - 1) : rest[k] = " ")
                 \/ HasQuotedSpace(SubSeq(rest, j + 1, Len(rest)))

\* C11: for every string that holds a single-quoted phrase with spaces, the
\* forward transform followed by the inverse transform gives back the
\* original string.
C11_RoundTrip ==
    (t_pc = "restored" /\ HasQuotedSpace(t_text)) => t_restored = t_text

(***************************************************************************)
(* Claims about the statement set.                                         *)
(***************************************************************************)
\* text s ends with text t
EndsWith(s, t) == Len(s) >= Len(t) /\ SubSeq(s, Len(s) - Len(t) + 1, Len(s)) = t

\* the statement keys other than the control statement
ScaleKeys == EmittedKeys \ {ControlKey}

\* the key is a name without parentheses, ".scale(", parameters and ")"
ScaleWithParams(key) ==
    /\ key[Len(key)] = ")"
    /\ \E i \in 1..Len(key) :
         /\ i + Len(DotScale) <= Len(key)
         /\ SubSeq(key, i, i + Len(DotScale)) = DotScale \o <<"(">>
         /\ \A j \in 1..(i - 1) : key[j] \notin {"(", ")"}

\* C12 as claimed: every key of the statement set other than the control
\* statement ends with ".scale", with or without a parameter list.
C12_KeysEndWithScale ==
    pc = "write" => \A key \in ScaleKeys : EndsWith(key, DotScale)

\* C12 amended: every key other than the control statement carries ".scale"
\* right after the identifier's name: the key of a bare identifier ends with
\* ".scale", the key of an identifier with a parameter list is the name,
\* ".scale" and then the parenthesized list.
C12_ScaleFollowsName ==
    pc = "write" =>
      \A key \in ScaleKeys :
        IF IndexOf(key, "(") = 0
          THEN EndsWith(key, DotScale)
          ELSE ScaleWithParams(key)

C12_Witness ==
    /\ pc = "write"
    /\ \E key \in ScaleKeys : IndexOf(key, "(") = 0
    /\ \E key \in ScaleKeys : IndexOf(key, "(") # 0

\* C13: the emitted statement sequence is fixed by the problem file, the
\* bounds, the step count and the mode: every run on these inputs emits, from
\* the factor tables they determine, the sequence this run emitted.
C13_EmissionDeterministic ==
    pc = "write" =>
      \A ro \in Orders(NonUnit(scalers.row)), co \in Orders(NonUnit(scalers.col)) :
        BuildDict(scalers, ro, co) = scaler_dict

(***************************************************************************)
(* Claims about whole runs.                                                *)
(***************************************************************************)
\* the run ended with an error of the dispatch, the preprocessing, the
\* parsing, the scaling or the construction of the statement set
AbortedBeforeWrite ==
    /\ pc = "raised"
    /\ err \in {"invalid_mode", "range_step_zero", "format_error", "bad_bounds",
                "attribute_error"}

\* C14: a run that aborts during preprocessing, parsing or scaling leaves the
\* scale-statement file of an earlier run as it was; the file is written only
\* once all iterations are done and the statement set is built, and at most
\* once per run.
C14_OutputKeptOnAbort ==
    /\ [](AbortedBeforeWrite => outFile = outFile0)
    /\ [][outFile' # outFile =>
            (pc = "write" /\ counter >= steps /\ "write_output" \notin io)]_vars

C14_Witness ==
    /\ AbortedBeforeWrite
    /\ err \in {"range_step_zero", "format_error", "bad_bounds"}
    /\ outFile0.exists
    /\ outFile0.text # <<>>
    /\ outFile = outFile0

(***************************************************************************)
(* Claims about the magnitude transform and the outlier filter.            *)
(***************************************************************************)
RECURSIVE Pow10(_)
\* 10 to the power e, e >= 0
Pow10(e) == IF e <= 0 THEN 1 ELSE 10 * Pow10(e - 1)

\* C15: the magnitude transform gives exactly 0 for a zero coefficient, never
\* an infinity, gives the base-10 logarithm of the absolute value for a
\* nonzero coefficient, and leaves the table passed in as it was.
C15_LogOfMagnitude ==
    g_pc = "done" =>
      /\ g_data = g_data0
      /\ Len(g_log) = Len(g_data0)
      /\ \A i \in 1..Len(g_data0) :
           /\ g_log[i] # NegInf
           /\ g_data0[i] = 0 => g_log[i] = 0
           /\ g_data0[i] # 0 => (g_log[i] >= 0 /\ Pow10(g_log[i]) = Abs(g_data0[i]))

C15_Witness ==
    /\ g_pc = "done"
    /\ \E i, j, k \in 1..Len(g_data0) :
         /\ g_data0[i] = 0 /\ g_log[i] = 0
         /\ g_data0[j] = -100 /\ g_log[j] = 2
         /\ g_data0[k] = 10 /\ g_log[k] = 1

\* C16: the filter with the integer bound b selects the same rows, in the
\* same order, as the filter with the pair [-b, b]: the rows whose magnitude is
\* <= -b or >= b, both limits included.
C16_OutlierSymmetry ==
    f_pc = "both" =>
      /\ f_int = f_pair
      /\ \A i \in 1..Len(f_data) :
           (\E k \in 1..Len(f_int) : f_int[k] = [ix |-> i, val |-> f_data[i]])
             <=> (f_data[i] <= -f_b \/ f_data[i] >= f_b)
      /\ \A k \in 1..Len(f_int) : f_int[k].ix \in 1..Len(f_data)
      /\ \A k, l \in 1..Len(f_int) : k < l => f_int[k].ix < f_int[l].ix

C16_Witness ==
    /\ f_pc = "both"
    /\ f_b = 2
    /\ f_data = <<-3, -2, 2>>
    /\ f_int = <<[ix |-> 1, val |-> -3], [ix |-> 2, val |-> -2], [ix |-> 3, val |-> 2]>>
    /\ f_pair = f_int

(***************************************************************************)
(* Claims about the prescaler lookup.                                      *)
(***************************************************************************)
\* C17: the lookup of a model/scenario pair whose scale file does not exist
\* returns None with a diagnostic message, raises no exception and creates or
\* changes no file.
C17_MissingPrescalerIsNone ==
    (k_pc = "done" /\ GmsName(k_model, k_scenario) \notin k_files0) =>
      /\ k_ret.set /\ k_ret.none
      /\ k_out = <<NoPrescalerFile>>
      /\ ~k_raised
      /\ k_files = k_files0

C17_Witness ==
    /\ k_pc = "done"
    /\ k_model = <<"m", " ", "x">>
    /\ k_files0 = {GmsName(<<"m">>, <<"n">>)}
    /\ k_ret.none
    /\ k_out # <<>>

(***************************************************************************)
(* Claims about the scaling steps.                                         *)
(***************************************************************************)
\* the entries of axis value a of axis s in matrix m
EntriesOf(m, s, a) == {c \in DOMAIN m : Level(c, s) = a}

\* the magnitude of an entry in half units, 0 for a zero coefficient
Magnitude(e) == IF e.z THEN 0 ELSE e.h

\* axis value a has an entry whose magnitude is <= the lower or >= the upper
\* limit of the bounds
HasOutlier(m, s, a, b) ==
    \E c \in EntriesOf(m, s, a) :
       Magnitude(m[c]) <= 2 * (IF b.kind = "int" THEN -b.b ELSE b.lo)
         \/ Magnitude(m[c]) >= 2 * (IF b.kind = "int" THEN b.b ELSE b.up)

\* the midpoint (min + max) / 2 of the magnitudes of axis value a, truncated
\* toward zero: with magnitudes in half units, (min + max) / 4
TruncatedMidpoint(m, s, a) ==
    LET mags == {Magnitude(m[c]) : c \in EntriesOf(m, s, a)}
        sum  == SetMin(mags) + SetMax(mags)
    IN IF sum >= 0 THEN sum \div 4 ELSE -((-sum) \div 4)

\* C18: in every step each row or column with an outlier entry (the
\* objective sentinel aside, which is never scaled) gets the exponent given
\* by the truncated midpoint (min + max) / 2 of the magnitudes of all its
\* entries, a row the midpoint and a column its negation; every other row or
\* column gets exponent 0, that is factor 1.
C18_ExponentIsMidpoint ==
    last.set =>
      \A a \in get_lvl_ix(DOMAIN last.matrix, last.axis) \ {OBJ, CONSTOBJ} :
        last.step[a] =
          IF HasOutlier(last.matrix, last.axis, a, bounds)
            THEN (IF last.axis = "row" THEN TruncatedMidpoint(last.matrix, last.axis, a)
                                       ELSE -TruncatedMidpoint(last.matrix, last.axis, a))
            ELSE 0

\* C19: after every row step and every column step each entry is its parsed
\* value divided by the product of the step factors of its row so far and
\* multiplied by the product of the step factors of its column so far.
C19_MatrixIsScaledOriginal ==
    pc \in {"scale", "write"} =>
      \A c \in DOMAIN matrix :
        /\ matrix[c].z = matrix0[c].z
        /\ ~matrix[c].z =>
             matrix[c].h = matrix0[c].h - 2 * CumOf(cum.row, c[1]) + 2 * CumOf(cum.col, c[2])

\* the matrix after the row step and then the column step of iteration 0
SequentialIteration(m, b) ==
    LET r == StepParallel(m, NoScalers, "row", b, 0)
    IN StepParallel(r.matrix, r.scalers, "col", b, 0).matrix

\* C20: when the row task and the column task of one iteration run in the
\* pool, the matrix returned has the row and the column factors applied and
\* is the matrix the row step followed by the column step gives, under every
\* interleaving of the two tasks.
C20_ConcurrentEqualsSequential ==
    o_pc = "returned" => o_ret.matrix = SequentialIteration(o_matrix, o_bounds)

(***************************************************************************)
(* Claims about the preprocessing pool.                                    *)
(***************************************************************************)
\* C21: the number of chunks, which is the number of threads of the
\* preprocessing pool, never exceeds the worker count N.
C21_ChunksWithinWorkers ==
    pc = "workers" => Len(chunks) <= n_workers

(***************************************************************************)
(* Claims about the iteration loop.                                        *)
(***************************************************************************)
\* C22: a run makes exactly "steps" iterations, each a row step followed by
\* a column step; every step computes from the matrix as the step before it
\* left it, so the column step sees the matrix updated by the row step of its
\* iteration; the statement set is built only after the last column step.
C22_RowThenColumnStepsTimes ==
    /\ [](pc = "scale" => /\ counter <= steps
                          /\ scaler_dict = <<>>
                          /\ last.set => last.axis # axis
                          /\ ~last.set => (axis = "row" /\ counter = 0))
    /\ [](pc = "write" => /\ counter = steps
                          /\ last.set /\ last.axis = "col")
    /\ [][last' # last =>
            /\ pc = "scale" /\ counter < steps
            /\ last'.axis = axis /\ last'.matrix = matrix
            /\ counter' = (IF axis = "col" THEN counter + 1 ELSE counter)]_vars

C22_Witness ==
    /\ pc = "write"
    /\ steps = 2
    /\ counter = 2
    /\ last.axis = "col"
    /\ last.matrix # matrix0
    /\ last.matrix # matrix

(***************************************************************************)
(* Claims about the sentinels and the statement keys.                      *)
(***************************************************************************)
\* the cumulative factor of the row "_obj" and of the column "constobj" is 1
SentinelsUnscaled ==
    /\ CumOf(scalers.row, OBJ) = 0
    /\ CumOf(scalers.col, CONSTOBJ) = 0

\* C23 as claimed: the sentinels "_obj" (rows) and "constobj" (columns) keep
\* the cumulative factor 1, and no statement with the key "_obj.scale" or
\* "constobj.scale" is emitted.
C23_NoSentinelStatement ==
    /\ pc \in {"scale", "write"} => SentinelsUnscaled
    /\ pc = "write" => /\ OBJ \o DotScale \notin EmittedKeys
                       /\ CONSTOBJ \o DotScale \notin EmittedKeys

\* C23 amended: the sentinels keep the cumulative factor 1 and yield no
\* statement themselves; "_obj.scale" is emitted only for a column named
\* "_obj" and "constobj.scale" only for a row named "constobj".
C23_SentinelsNeverScaled ==
    /\ pc \in {"scale", "write"} => SentinelsUnscaled
    /\ pc = "write" =>
         /\ OBJ \o DotScale \in EmittedKeys => OBJ \in NonUnit(scalers.col)
         /\ CONSTOBJ \o DotScale \in EmittedKeys => CONSTOBJ \in NonUnit(scalers.row)

C23_Witness ==
    /\ pc = "write"
    /\ counter = 2
    /\ \A c \in DOMAIN matrix0 : c[1] = OBJ => matrix0[c] = Coef(6)
    /\ scalers.row[OBJ] = 0
    /\ \E a \in DOMAIN scalers.row : scalers.row[a] # 0
    /\ OBJ \o DotScale \notin EmittedKeys

\* a parameter as the key is to show it: in quotes, which are added only if
\* it is not quoted already
InQuotes(prm) ==
    IF Len(prm) >= 2 /\ prm[1] = QUOTE /\ prm[Len(prm)] = QUOTE
    THEN prm ELSE <<QUOTE>> \o prm \o <<QUOTE>>

\* C24: the key of NAME(p1,...,pn) is NAME.scale('p1',...,'pn'): the base
\* name, as many parameters as the identifier has, in its order, each in
\* quotes added only where there were none, also when a quoted parameter
\* holds a comma or a parenthesis.
C24_KeyKeepsParameters ==
    y_pc = "done" =>
      y_key = y_name \o DotScale \o <<"(">>
                \o Join([i \in 1..Len(y_params) |-> InQuotes(y_params[i])]) \o <<")">>

\* the lines and the unterminated rest that one read of the whole file gives
WholeFileLines(bs) ==
    LET lines == SplitNL(Decode(bs))
    IN  [lines |-> SubSeq(lines, 1, Len(lines) - 1), buffer |-> lines[Len(lines)]]

\* C25: for every file and every chunk_size >= 1 the lines handed to the
\* line loop, in their order (and so with their line numbers), and the
\* unterminated rest are those of reading the whole file as one chunk.
C25_ChunkSizeIndependent ==
    c_pc = "done" =>
      [lines |-> c_lines, buffer |-> c_buffer] = WholeFileLines(c_file)

\* the file ended with the ENDATA header on a line without a newline: the
\* keyword was seen, and not by the line loop, which would have entered
\* section 7 or raised
EndataUnterminated ==
    /\ p_pc \in {"ok", "error"}
    /\ ~lastTerm
    /\ "ENDATA" \in hdrSeen
    /\ n_section # 7

\* what the file holds before that line is valid: an objective row, a row
\* and a column, no header out of order, no undeclared row named
ValidBeforeLastLine ==
    /\ lp.gf_seq # -1
    /\ lp.n_rows > 0 /\ lp.n_cols > 0
    /\ {"NAME", "ROWS", "COLUMNS"} \subseteq hdrSeen
    /\ lowHdr = 0 /\ badRef = 0

\* C26: the last line is treated like every other line whether or not it
\* ends with a newline: an otherwise valid file whose final line is the
\* ENDATA header without a newline parses successfully, and a header out of
\* order on an unterminated final line is rejected as it is elsewhere.
C26_LastLineLikeOthers ==
    /\ (EndataUnterminated /\ ValidBeforeLastLine) => p_pc = "ok"
    /\ (~lastTerm /\ lowHdr # 0) => (p_pc = "error" /\ p_err.kind = "out_of_order")

\* the name table and the sequence table of one axis are inverse to each
\* other, the sequence numbers being 0..n-1
TablesInverse(name_tbl, seq_tbl, n) ==
    /\ DOMAIN seq_tbl = 0..(n - 1)
    /\ \A nm \in DOMAIN name_tbl :
         name_tbl[nm] \in DOMAIN seq_tbl /\ seq_tbl[name_tbl[nm]].name = nm
    /\ \A s \in DOMAIN seq_tbl :
         seq_tbl[s].name \in DOMAIN name_tbl /\ name_tbl[seq_tbl[s].name] = s

\* the names of a table keep their sequence number in the step
KeepsNumbers(old_tbl, new_tbl) ==
    \A nm \in DOMAIN old_tbl : nm \in DOMAIN new_tbl /\ new_tbl[nm] = old_tbl[nm]

\* C27: in every state of a parse, on each axis the name-to-sequence table
\* and the sequence-to-attributes table are mutually inverse over the
\* numbers 0..n-1, and no step changes the number of a name that has one,
\* also when a row name is declared again in ROWS.
C27_TablesMutuallyInverse ==
    /\ [](/\ TablesInverse(lp.row_name, lp.seq_row, lp.n_rows)
          /\ TablesInverse(lp.col_name, lp.seq_col, lp.n_cols))
    /\ [][/\ KeepsNumbers(lp.row_name, lp'.row_name)
          /\ KeepsNumbers(lp.col_name, lp'.col_name)]_vars

\* number s is that of the first row declared with the kind tag N
FirstObjectiveRow(o, s) ==
    /\ s \in DOMAIN o.seq_row
    /\ o.seq_row[s].type = "N"
    /\ \A r \in DOMAIN o.seq_row : r < s => o.seq_row[r].type # "N"

\* C29: after every successful parse the objective sequence number is
\* defined and is the number of the first row declared with the tag N; once
\* set it is never changed by a later row, also when further N rows follow.
C29_ObjectiveIsFirstN ==
    /\ [](p_pc = "ok" => lp.gf_seq # -1)
    /\ [](lp.gf_seq # -1 => FirstObjectiveRow(lp, lp.gf_seq))
    /\ [][lp.gf_seq # -1 => lp'.gf_seq = lp.gf_seq]_vars

\* a parse that succeeded on a file with a second N row after the objective
C29_Witness ==
    /\ p_pc = "ok"
    /\ lp.gf_seq = 0
    /\ \E r \in DOMAIN lp.seq_row : r > lp.gf_seq /\ lp.seq_row[r].type = "N"

\* every entry appended so far stands at the position it was appended at
EntriesInPlace ==
    \A i \in 1..Len(b_hist) : (i - 1) \in DOMAIN b_arr /\ b_arr[i - 1] = b_hist[i]

\* C28: for every initial capacity and every sequence of appended entries
\* the entry count never exceeds the capacity, the capacity changes only by
\* doubling when an append finds the buffer full, and every entry appended
\* earlier keeps its position and its (row, column, value) after each growth
\* and after the final trim to the entry count.
C28_BufferKeepsEntries ==
    /\ [](b_size <= b_capacity)
    /\ [](b_size = Len(b_hist) /\ EntriesInPlace)
    /\ [](b_pc = "trimmed" => DOMAIN b_arr = 0..(b_size - 1))
    /\ [][b_capacity' # b_capacity =>
            /\ b_pc = "append" /\ b_size = b_capacity
            /\ b_capacity' = 2 * b_capacity]_vars

\* three entries appended to arrays of capacity 1, which grew twice, and
\* the arrays trimmed
C28_Witness ==
    /\ b_pc = "trimmed"
    /\ Len(b_hist) = 3
    /\ b_capacity = 4
    /\ b_hist[1] # b_hist[2]

\* C30: the mapping from axis values to statement keys loses no factor:
\* distinct rows and columns with a non-unit cumulative factor have distinct
\* keys, so the statements emitted number the rows plus the columns with a
\* non-unit factor, plus one for the control statement.
C30_NoFactorLost ==
    pc = "write" =>
      Len(scaler_dict) = Cardinality(NonUnit(scalers.row))
                           + Cardinality(NonUnit(scalers.col)) + 1

====
